---- MODULE Spec2Model ----
(***************************************************************************)
(* A state-machine model of the character controller                       *)
(* (src/src/render/controllers/character-controller.ts), its math helpers  *)
(* and the animation loop that drives it (tick-manager.ts).                *)
(*                                                                         *)
(* Numbers.  The program computes in IEEE doubles; the model computes in   *)
(* exact integers on fixed grids:                                          *)
(*   time      1 tick  = 1/20 s   (the loop's 100 ms cap is 2 ticks)       *)
(*   length    1 unit  = 1/80000 scene unit (so 0.5*9.81*t^2 is exact)     *)
(*   zoom      1 unit  = 1/1000 scene unit                                 *)
(*   angle     1 unit  = 1/1000 rad                                        *)
(*   factors   1000 = 1.0 (easing outputs, sines)                          *)
(*   easeOutExpo outputs: 65536 = 1.0                                      *)
(* Rounding is floor (\div), the fixed-point counterpart of the double     *)
(* rounding of the program.                                                *)
(***************************************************************************)
EXTENDS Integers, Sequences, FiniteSets, TLC

VARIABLES
  clock,     \* the last timestamp the host handed out (ticks)
  input,     \* InputManager: pointerLocked, currentKeys, currentMouse
  body,      \* CharacterController: position, phi, theta, isMoving2D
  hc,        \* HeightController
  zc,        \* ZoomController
  hb,        \* HeadBobController
  camera,    \* the camera: position and look-at target
  collider,  \* the kinematic collider's registered translation
  tm,        \* TickManager: timestamp, timeDiff, lastTimestamp; observation:
             \* the order of the last frame and the camera it rendered with
  renderSize,\* the viewport: renderWidth, renderHeight (pixels)
  engine,    \* the engine module: renderer, physics world, animation loop,
             \* physics-object registry
  steps,     \* observation: the steps the last CharacterController.update ran
  scratch,   \* the module's reusable objects: vec3_0, vec3_1, quaternion_0,
             \* quaternion_1, ray_0; observation: the reads of the last frame
  probe,     \* observation: what the last detectGround saw and did
  op,        \* observation: the last operation performed
  obs,       \* observation: history the properties refer to
  events     \* the number of input events (and direct calls that change an
             \* input) delivered so far

vars == <<clock, input, body, hc, zc, hb, camera, collider, tm, renderSize, engine,
          steps, scratch, probe, op, obs, events>>

-----------------------------------------------------------------------------
(* Bounds of the model *)

\* the last timestamp (ticks) the host hands out
MaxTime == 44
\* the number of input events delivered in one run
MaxEvents == 2

-----------------------------------------------------------------------------
(* Program constants, in model units *)

HALF_PI == 1571
PI == 2 * HALF_PI
TWO_PI == 4 * HALF_PI

MIN_ZOOM_LEVEL == 1
MAX_ZOOM_LEVEL == 20000
SCROLL_LEVEL_STEP == 1500
SCROLL_ANIMATION_SPEED == 2

JUMP_DURATION == 10
JUMP_AMPLITUDE == 40000

\* GRAVITY.y = -9.81 scene units/s^2 = -1962 length units/tick^2
GRAVITY_Y == -1962

\* updateTranslation: timeDiff * 10 scene units/s = 40000 length units/tick
MOVE_SPEED == 40000
\* FIVE: the sprint multiplier
SPRINT == 5
\* PHI_SPEED = THETA_SPEED = 2.5 rad per viewport = 2500 angle units
PHI_SPEED == 2500
THETA_SPEED == 2500

\* HEAD_BOB_FREQUENCY * (1 / HEAD_BOB_DURATION) = 8 rad/s = 400 angle units/tick
HEAD_BOB_RATE == 400
\* HEAD_BOB_AMPLITUDE = 0.3 scene units
HEAD_BOB_AMPLITUDE == 24000

\* tick-manager: Math.min(Math.max(timeDiff, 0), 100) ms = 2 ticks
MAX_FRAME_TIME == 2

\* the capsule avatar of init.ts (_addCapsule(1.5, 0.5, ..)): bounding box
\* 1 x 2.5 x 1 scene units, spawned with its centre at y = 11.25
AVATAR_WIDTH == 80000
AVATAR_HEIGHT == 200000
SPAWN_Y == 900000
\* the viewport (window.innerWidth / innerHeight), pixels
RENDER_WIDTH == 2500
RENDER_HEIGHT == 2500

\* the ground of app.ts: a fixed cuboid centred at the origin with
\* half-extents 50 x 0.001 x 50 scene units
GROUND_HALF_EXTENT == 4000000
GROUND_HALF_THICKNESS == 80

\* 1.0 in the two factor scales
ONE_MILLI == 10 * 10 * 10
ONE_EXPO == 256 * 256
\* length units per zoom unit
ZOOM_TO_LENGTH == 80000 \div 1000
\* 0.01 scene units, in length units
Hundredth == (ONE_MILLI * ZOOM_TO_LENGTH) \div 100

KEYS == {"KeyA", "KeyS", "KeyW", "KeyD", "Space", "ShiftLeft", "ShiftRight"}

-----------------------------------------------------------------------------
(* utils/math.ts *)

Min(a, b) == IF a < b THEN a ELSE b
Max(a, b) == IF a > b THEN a ELSE b
Abs(a) == IF a < 0 THEN -a ELSE a

\* clamp(x, a, b) = Math.min(Math.max(x, a), b)
clamp(x, a, b) == Min(Max(x, a), b)

\* lerp(x, y, a) = x * (1 - a) + y * a, with a given on the scale `one`
lerp(x, y, a, one) == (x * (one - a) + y * a) \div one

\* 2^n
RECURSIVE Pow2(_)
Pow2(n) == IF n <= 0 THEN 1 ELSE 2 * Pow2(n - 1)

\* easeOutExpo(x) = x === 1 ? 1 : 1 - Math.pow(2, -10 * x).  x is a zoom
\* progress >= 0 in twentieths (time * 20), so 10 * x is x / 2 and whole for
\* the even values the zoom controller produces; the result is on the ONE_EXPO
\* scale, and 2^(-n) below 1/65536 rounds to 0 as it does below 2^-53 in a double.
easeOutExpo(x) ==
  IF x = 20 THEN ONE_EXPO
  ELSE ONE_EXPO - (IF x \div 2 > 16 THEN 0 ELSE ONE_EXPO \div Pow2(x \div 2))

\* Math.sqrt on integers: the floor of the square root, by bisection of
\* lo..hi (lo * lo <= n < (hi + 1) * (hi + 1))
RECURSIVE SqrtIn(_, _, _)
SqrtIn(n, lo, hi) ==
  IF lo >= hi THEN lo
  ELSE LET mid == (lo + hi + 1) \div 2
       IN  IF mid * mid <= n THEN SqrtIn(n, mid, hi) ELSE SqrtIn(n, lo, mid - 1)

ISqrt(n) == SqrtIn(n, 0, ONE_MILLI)

\* EaseOutCirc(x) = Math.sqrt(1 - (x - 1)^2), x and the result in thousandths
EaseOutCirc(x) == ISqrt(ONE_MILLI * ONE_MILLI - (x - ONE_MILLI) * (x - ONE_MILLI))

\* Math.sin of an angle in [0, PI], in thousandths: Bhaskara's rational
\* approximation 16 x (pi - x) / (5 pi^2 - 4 x (pi - x)), exact at 0, pi/2
\* and pi and within 0.002 elsewhere.
SinHalfTurn(x) ==
  LET p == x * (PI - x)
      den == (5 * PI * PI - 4 * p) \div 100
  IN  (16 * ONE_MILLI * (p \div 100) + den \div 2) \div den

\* Math.sin of any angle (angle units), in thousandths
Sin(a) ==
  LET r == a % TWO_PI
  IN  IF r <= PI THEN SinHalfTurn(r) ELSE -SinHalfTurn(r - PI)

\* Math.cos
Cos(a) == Sin(a + HALF_PI)

\* UpDownCirc(x) = Math.sin(EaseOutCirc(x) * Math.PI), x in thousandths
UpDownCirc(x) == Sin((EaseOutCirc(x) * PI) \div ONE_MILLI)

-----------------------------------------------------------------------------
(* InputManager *)

\* constructor: no key down, no button, zero deltas, pointer not locked.
\* currentKeys is a Map; a key that was never set reads undefined, which
\* isKeyDown treats as false, so the map is modelled as total with FALSE.
InputInit ==
  [ pointerLocked |-> FALSE,
    currentKeys |-> [k \in KEYS |-> FALSE],
    leftButton |-> FALSE,
    rightButton |-> FALSE,
    mouseXDelta |-> 0,
    mouseYDelta |-> 0,
    mouseWheelDelta |-> 0 ]

\* setPointerLocked: pointerLocked = (document.pointerLockElement === canvas)
setPointerLocked(in, locked) == [in EXCEPT !.pointerLocked = locked]

\* onMouseWheel that accumulates the steps without bounds
onMouseWheelUnclamped(in, deltaY) ==
  IF in.pointerLocked
  THEN IF deltaY < 0
       THEN [in EXCEPT !.mouseWheelDelta = @ - SCROLL_LEVEL_STEP]
       ELSE IF deltaY > 0
            THEN [in EXCEPT !.mouseWheelDelta = @ + SCROLL_LEVEL_STEP]
            ELSE in
  ELSE in

\* onMouseWheel(e): only the sign of e.deltaY is read
onMouseWheel(in, deltaY) ==
  IF in.pointerLocked
  THEN IF deltaY < 0
       THEN [in EXCEPT !.mouseWheelDelta = Max(@ - SCROLL_LEVEL_STEP, MIN_ZOOM_LEVEL)]
       ELSE IF deltaY > 0
            THEN [in EXCEPT !.mouseWheelDelta = Min(@ + SCROLL_LEVEL_STEP, MAX_ZOOM_LEVEL)]
            ELSE in
  ELSE in

\* onMouseMove adding the movement to the stored deltas
onMouseMoveAccumulates(in, mx, my) ==
  IF in.pointerLocked
  THEN [in EXCEPT !.mouseXDelta = @ + mx, !.mouseYDelta = @ + my]
  ELSE in

\* onMouseMove(e)
onMouseMove(in, mx, my) ==
  IF in.pointerLocked
  THEN [in EXCEPT !.mouseXDelta = mx, !.mouseYDelta = my]
  ELSE in

\* onMouseDown that sets the button flags whether or not the pointer is
\* locked
onMouseDownUnguarded(in, button, mx, my) ==
  LET m == onMouseMove(in, mx, my)
  IN  IF button = 0 THEN [m EXCEPT !.leftButton = TRUE]
      ELSE IF button = 2 THEN [m EXCEPT !.rightButton = TRUE]
      ELSE m

\* onMouseDown(e): button 0 is left, 2 is right, others change no flag
onMouseDown(in, button, mx, my) ==
  IF in.pointerLocked
  THEN LET m == onMouseMove(in, mx, my)
       IN  IF button = 0 THEN [m EXCEPT !.leftButton = TRUE]
           ELSE IF button = 2 THEN [m EXCEPT !.rightButton = TRUE]
           ELSE m
  ELSE in

\* onMouseUp(e)
onMouseUp(in, button, mx, my) ==
  IF in.pointerLocked
  THEN LET m == onMouseMove(in, mx, my)
       IN  IF button = 0 THEN [m EXCEPT !.leftButton = FALSE]
           ELSE IF button = 2 THEN [m EXCEPT !.rightButton = FALSE]
           ELSE m
  ELSE in

\* onKeyDown(e)
onKeyDown(in, code) ==
  IF in.pointerLocked THEN [in EXCEPT !.currentKeys[code] = TRUE] ELSE in

\* onKeyUp(e)
onKeyUp(in, code) ==
  IF in.pointerLocked THEN [in EXCEPT !.currentKeys[code] = FALSE] ELSE in

\* isKeyDown that does not look at the pointer lock
isKeyDownUnlocked(in, keyCode) == in.currentKeys[keyCode]

\* isKeyDown(keyCode)
isKeyDown(in, keyCode) == in.pointerLocked /\ in.currentKeys[keyCode]

\* InputManager.update() that leaves the vertical delta pending
inputUpdateKeepsY(in) == [in EXCEPT !.mouseXDelta = 0]

\* InputManager.update(): reset the per-frame mouse deltas
inputUpdate(in) == [in EXCEPT !.mouseXDelta = 0, !.mouseYDelta = 0]

\* runActionByKey(key, action, inAction), action and inAction being constants
runActionByKey(in, key, action, inAction) ==
  IF isKeyDown(in, key) THEN action ELSE inAction

\* runActionByOneKey(keys, action, inAction): any of the keys is down
runActionByOneKey(in, keys, action, inAction) ==
  IF \E k \in keys : isKeyDown(in, k) THEN action ELSE inAction

\* runActionByAllKeys(keys, action, inAction): check starts true, so an
\* empty list runs the action
runActionByAllKeys(in, keys, action, inAction) ==
  IF \A k \in keys : isKeyDown(in, k) THEN action ELSE inAction

-----------------------------------------------------------------------------
(* HeadBobController *)

HeadBobInit ==
  [ headBobTimer |-> 0, lastHeadBobDiff |-> 0, headBobAmount |-> 0,
    headBobActive |-> FALSE ]

\* getHeadBob that runs the sine whether or not the bob is active
getHeadBobAlwaysActive(h, timeDiff, isMoving) ==
  LET active == TRUE
  IN  IF active
      THEN LET currentAmount == h.headBobTimer * HEAD_BOB_RATE
               headBobDiff == currentAmount % PI
           IN  [ headBobTimer |-> h.headBobTimer + timeDiff,
                 headBobAmount |-> (Sin(currentAmount) * HEAD_BOB_AMPLITUDE) \div ONE_MILLI,
                 headBobActive |-> ~(headBobDiff < h.lastHeadBobDiff),
                 lastHeadBobDiff |-> headBobDiff ]
      ELSE [h EXCEPT !.headBobActive = active]

\* getHeadBob that never stops a bob once it is active
getHeadBobNeverStops(h, timeDiff, isMoving) ==
  LET active == IF h.headBobActive THEN TRUE ELSE isMoving
  IN  IF active
      THEN LET currentAmount == h.headBobTimer * HEAD_BOB_RATE
               headBobDiff == currentAmount % PI
           IN  [ headBobTimer |-> h.headBobTimer + timeDiff,
                 headBobAmount |-> (Sin(currentAmount) * HEAD_BOB_AMPLITUDE) \div ONE_MILLI,
                 headBobActive |-> TRUE,
                 lastHeadBobDiff |-> headBobDiff ]
      ELSE [h EXCEPT !.headBobActive = active]

\* getHeadBob that starts the timer again when the bob stops
getHeadBobRestarts(h, timeDiff, isMoving) ==
  LET active == IF h.headBobActive THEN TRUE ELSE isMoving
  IN  IF active
      THEN LET currentAmount == h.headBobTimer * HEAD_BOB_RATE
               headBobDiff == currentAmount % PI
               stops == headBobDiff < h.lastHeadBobDiff
           IN  [ headBobTimer |-> IF stops THEN 0 ELSE h.headBobTimer + timeDiff,
                 headBobAmount |-> (Sin(currentAmount) * HEAD_BOB_AMPLITUDE) \div ONE_MILLI,
                 headBobActive |-> ~stops,
                 lastHeadBobDiff |-> headBobDiff ]
      ELSE [h EXCEPT !.headBobActive = active]

\* getHeadBob(timeDiff, isMoving): the new controller state; the value
\* returned is its headBobAmount
getHeadBob(h, timeDiff, isMoving) ==
  LET active == IF h.headBobActive THEN TRUE ELSE isMoving
  IN  IF active
      THEN LET currentAmount == h.headBobTimer * HEAD_BOB_RATE
               headBobDiff == currentAmount % PI
           IN  [ headBobTimer |-> h.headBobTimer + timeDiff,
                 headBobAmount |-> (Sin(currentAmount) * HEAD_BOB_AMPLITUDE) \div ONE_MILLI,
                 headBobActive |-> ~(headBobDiff < h.lastHeadBobDiff),
                 lastHeadBobDiff |-> headBobDiff ]
      ELSE [h EXCEPT !.headBobActive = active]

-----------------------------------------------------------------------------
(* ZoomController *)

ZoomInit ==
  [ zoom |-> MIN_ZOOM_LEVEL, startingZoom |-> 0, lastZoomLevel |-> 0,
    startZoomAnimation |-> 0, isAnimating |-> FALSE ]

\* ZoomController.update animating towards the level as passed, not clamped
zoomUpdateUnclamped(z, zoomLevel, timestamp) ==
  LET time == timestamp * SCROLL_ANIMATION_SPEED
      zoomLevelHasChanged == z.lastZoomLevel # zoomLevel
      z1 == IF zoomLevelHasChanged
            THEN [z EXCEPT !.startingZoom = z.zoom,
                           !.startZoomAnimation = time,
                           !.isAnimating = TRUE]
            ELSE z
      progress == time - z1.startZoomAnimation
      z2 == IF z1.isAnimating
            THEN [z1 EXCEPT !.zoom = lerp(z1.startingZoom, zoomLevel,
                                          easeOutExpo(progress), ONE_EXPO),
                            !.isAnimating = ~(progress >= 20)]
            ELSE z1
  IN  [z2 EXCEPT !.lastZoomLevel = zoomLevel]

\* ZoomController.update restarting an animation from the previous target
zoomUpdateFromTarget(z, zoomLevel, timestamp) ==
  LET time == timestamp * SCROLL_ANIMATION_SPEED
      zlClamped == clamp(zoomLevel, MIN_ZOOM_LEVEL, MAX_ZOOM_LEVEL)
      zoomLevelHasChanged == z.lastZoomLevel # zoomLevel
      z1 == IF zoomLevelHasChanged
            THEN [z EXCEPT !.startingZoom =
                             clamp(z.lastZoomLevel, MIN_ZOOM_LEVEL, MAX_ZOOM_LEVEL),
                           !.startZoomAnimation = time,
                           !.isAnimating = TRUE]
            ELSE z
      progress == time - z1.startZoomAnimation
      z2 == IF z1.isAnimating
            THEN [z1 EXCEPT !.zoom = lerp(z1.startingZoom, zlClamped,
                                          easeOutExpo(progress), ONE_EXPO),
                            !.isAnimating = ~(progress >= 20)]
            ELSE z1
  IN  [z2 EXCEPT !.lastZoomLevel = zoomLevel]

\* ZoomController.update(zoomLevel, timestamp, timeDiff).  time and
\* startZoomAnimation are kept in twentieths: timestamp (ticks of 1/20 s)
\* times SCROLL_ANIMATION_SPEED.
zoomUpdate(z, zoomLevel, timestamp) ==
  LET time == timestamp * SCROLL_ANIMATION_SPEED
      zlClamped == clamp(zoomLevel, MIN_ZOOM_LEVEL, MAX_ZOOM_LEVEL)
      zoomLevelHasChanged == z.lastZoomLevel # zoomLevel
      z1 == IF zoomLevelHasChanged
            THEN [z EXCEPT !.startingZoom = z.zoom,
                           !.startZoomAnimation = time,
                           !.isAnimating = TRUE]
            ELSE z
      progress == time - z1.startZoomAnimation
      z2 == IF z1.isAnimating
            THEN [z1 EXCEPT !.zoom = lerp(z1.startingZoom, zlClamped,
                                          easeOutExpo(progress), ONE_EXPO),
                            !.isAnimating = ~(progress >= 20)]
            ELSE z1
  IN  [z2 EXCEPT !.lastZoomLevel = zoomLevel]

-----------------------------------------------------------------------------
(* HeightController *)

HeightInit ==
  [ height |-> 0, lastHeight |-> 0, movePerFrame |-> 0, lastGroundHeight |-> 0,
    startFallAnimation |-> 0, startJumpAnimation |-> 0, jumpFactor |-> 0,
    isAnimating |-> FALSE, grounded |-> FALSE ]

\* the jump term of HeightController.update:
\* lerp(0, jumpFactor * JUMP_AMPLITUDE, UpDownCirc(clamp(jt / JUMP_DURATION, 0, 1)))
jumpMotion(jumpFactor, jt) ==
  lerp(0, jumpFactor * JUMP_AMPLITUDE,
       UpDownCirc(clamp((jt * ONE_MILLI) \div JUMP_DURATION, 0, ONE_MILLI)),
       ONE_MILLI)

\* HeightController.update that keeps the fall start when grounded
heightUpdateKeepsFallStart(h, timestamp) ==
  LET t == timestamp - h.startFallAnimation
      fall == (GRAVITY_Y * t * t) \div 2
      h1 == IF ~h.grounded
            THEN [h EXCEPT !.isAnimating = TRUE,
                           !.height = fall,
                           !.movePerFrame = fall - h.lastHeight]
            ELSE [h EXCEPT !.isAnimating = FALSE,
                           !.height = 0,
                           !.lastHeight = 0,
                           !.movePerFrame = 0]
      jt == timestamp - h1.startJumpAnimation
      h2 == IF h1.grounded /\ jt > JUMP_DURATION
            THEN [h1 EXCEPT !.jumpFactor = 0, !.startJumpAnimation = timestamp]
            ELSE [h1 EXCEPT !.movePerFrame = @ + jumpMotion(h1.jumpFactor, jt)]
  IN  [h2 EXCEPT !.lastHeight = h2.height]

\* HeightController.update with a fall that grows with t, not with t * t
heightUpdateLinearFall(h, timestamp) ==
  LET t == timestamp - h.startFallAnimation
      fall == (GRAVITY_Y * t) \div 2
      h1 == IF ~h.grounded
            THEN [h EXCEPT !.isAnimating = TRUE,
                           !.height = fall,
                           !.movePerFrame = fall - h.lastHeight]
            ELSE [h EXCEPT !.isAnimating = FALSE,
                           !.height = 0,
                           !.lastHeight = 0,
                           !.movePerFrame = 0,
                           !.startFallAnimation = timestamp]
      jt == timestamp - h1.startJumpAnimation
      h2 == IF h1.grounded /\ jt > JUMP_DURATION
            THEN [h1 EXCEPT !.jumpFactor = 0, !.startJumpAnimation = timestamp]
            ELSE [h1 EXCEPT !.movePerFrame = @ + jumpMotion(h1.jumpFactor, jt)]
  IN  [h2 EXCEPT !.lastHeight = h2.height]

\* HeightController.update resetting the jump after the window even in the air
heightUpdateResetsAirborne(h, timestamp) ==
  LET t == timestamp - h.startFallAnimation
      fall == (GRAVITY_Y * t * t) \div 2
      h1 == IF ~h.grounded
            THEN [h EXCEPT !.isAnimating = TRUE,
                           !.height = fall,
                           !.movePerFrame = fall - h.lastHeight]
            ELSE [h EXCEPT !.isAnimating = FALSE,
                           !.height = 0,
                           !.lastHeight = 0,
                           !.movePerFrame = 0,
                           !.startFallAnimation = timestamp]
      jt == timestamp - h1.startJumpAnimation
      h2 == IF jt > JUMP_DURATION
            THEN [h1 EXCEPT !.jumpFactor = 0, !.startJumpAnimation = timestamp]
            ELSE [h1 EXCEPT !.movePerFrame = @ + jumpMotion(h1.jumpFactor, jt)]
  IN  [h2 EXCEPT !.lastHeight = h2.height]

\* HeightController.update that does not remember the height it reached
heightUpdateKeepsLastHeight(h, timestamp) ==
  LET t == timestamp - h.startFallAnimation
      fall == (GRAVITY_Y * t * t) \div 2
      h1 == IF ~h.grounded
            THEN [h EXCEPT !.isAnimating = TRUE,
                           !.height = fall,
                           !.movePerFrame = fall - h.lastHeight]
            ELSE [h EXCEPT !.isAnimating = FALSE,
                           !.height = 0,
                           !.lastHeight = 0,
                           !.movePerFrame = 0,
                           !.startFallAnimation = timestamp]
      jt == timestamp - h1.startJumpAnimation
  IN  IF h1.grounded /\ jt > JUMP_DURATION
      THEN [h1 EXCEPT !.jumpFactor = 0, !.startJumpAnimation = timestamp]
      ELSE [h1 EXCEPT !.movePerFrame = @ + jumpMotion(h1.jumpFactor, jt)]

\* HeightController.update counting the first fall from its first call
heightUpdateFallsFromFirstCall(h, timestamp) ==
  LET t == IF h.startFallAnimation = 0 THEN 0 ELSE timestamp - h.startFallAnimation
      fall == (GRAVITY_Y * t * t) \div 2
      h1 == IF ~h.grounded
            THEN [h EXCEPT !.isAnimating = TRUE,
                           !.height = fall,
                           !.movePerFrame = fall - h.lastHeight,
                           !.startFallAnimation = IF @ = 0 THEN timestamp ELSE @]
            ELSE [h EXCEPT !.isAnimating = FALSE,
                           !.height = 0,
                           !.lastHeight = 0,
                           !.movePerFrame = 0,
                           !.startFallAnimation = timestamp]
      jt == timestamp - h1.startJumpAnimation
      h2 == IF h1.grounded /\ jt > JUMP_DURATION
            THEN [h1 EXCEPT !.jumpFactor = 0, !.startJumpAnimation = timestamp]
            ELSE [h1 EXCEPT !.movePerFrame = @ + jumpMotion(h1.jumpFactor, jt)]
  IN  [h2 EXCEPT !.lastHeight = h2.height]

\* HeightController.update(timestamp, timeDiff); timeDiff is not read
heightUpdate(h, timestamp) ==
  LET t == timestamp - h.startFallAnimation
      fall == (GRAVITY_Y * t * t) \div 2
      h1 == IF ~h.grounded
            THEN [h EXCEPT !.isAnimating = TRUE,
                           !.height = fall,
                           !.movePerFrame = fall - h.lastHeight]
            ELSE [h EXCEPT !.isAnimating = FALSE,
                           !.height = 0,
                           !.lastHeight = 0,
                           !.movePerFrame = 0,
                           !.startFallAnimation = timestamp]
      jt == timestamp - h1.startJumpAnimation
      h2 == IF h1.grounded /\ jt > JUMP_DURATION
            THEN [h1 EXCEPT !.jumpFactor = 0, !.startJumpAnimation = timestamp]
            ELSE [h1 EXCEPT !.movePerFrame = @ + jumpMotion(h1.jumpFactor, jt)]
  IN  [h2 EXCEPT !.lastHeight = h2.height]

\* setGrounded that reports the ground whatever it is told
setGroundedAlways(h, grounded) == [h EXCEPT !.grounded = TRUE]

\* setGrounded(grounded)
setGrounded(h, grounded) == [h EXCEPT !.grounded = grounded]

\* setJumpFactor(jumpFactor)
setJumpFactor(h, jumpFactor) == [h EXCEPT !.jumpFactor = jumpFactor]

-----------------------------------------------------------------------------
(* The physics world as the controller sees it: physics.castRay *)

NoHit == -1
\* the length of the ground and camera rays: 1000 scene units
RAY_LENGTH == 80000000

OverGround(o) ==
  Abs(o.x) <= GROUND_HALF_EXTENT /\ Abs(o.z) <= GROUND_HALF_EXTENT

\* castRay(ray, maxToi, solid = true, EXCLUDE_DYNAMIC, .., own collider, own
\* body) with ray.dir = DOWN: the time of impact on the ground cuboid, the
\* only fixed collider of the scene, or NoHit.  A solid cast from inside the
\* cuboid hits at 0.
castRayDown(o, maxToi) ==
  IF ~OverGround(o) THEN NoHit
  ELSE IF o.y > GROUND_HALF_THICKNESS
       THEN (IF o.y - GROUND_HALF_THICKNESS <= maxToi
             THEN o.y - GROUND_HALF_THICKNESS ELSE NoHit)
       ELSE IF o.y >= -GROUND_HALF_THICKNESS THEN 0 ELSE NoHit

\* the same cast with ray.dir = UP
castRayUp(o, maxToi) ==
  IF ~OverGround(o) THEN NoHit
  ELSE IF o.y < -GROUND_HALF_THICKNESS
       THEN (IF -GROUND_HALF_THICKNESS - o.y <= maxToi
             THEN -GROUND_HALF_THICKNESS - o.y ELSE NoHit)
       ELSE IF o.y <= GROUND_HALF_THICKNESS THEN 0 ELSE NoHit

\* what the first-person camera ray (castRay(ray, 1000, false), no filter)
\* may return: it depends on the dynamic bodies of the scene, which the
\* physics engine moves, so the model takes it as an input
ForwardHits == {5 * AVATAR_WIDTH}

-----------------------------------------------------------------------------
(* CharacterController *)

Vec(x, y, z) == [x |-> x, y |-> y, z |-> z]

\* constructor: position copied from the avatar mesh
BodyInit ==
  [ position |-> Vec(0, SPAWN_Y, 0), phi |-> 0, theta |-> 0,
    isMoving2D |-> FALSE, avatarPosition |-> Vec(0, SPAWN_Y, 0) ]

\* the camera left by initEngine: at (0, 0, 5), not yet aimed
CameraInit ==
  [ position |-> Vec(0, 0, 5 * AVATAR_WIDTH), lookAt |-> "none", hitToi |-> 0 ]

\* what detectGround has not yet observed
ProbeInit ==
  [ originY |-> 0, down |-> NoHit, up |-> NoHit, upCast |-> FALSE,
    before |-> Vec(0, 0, 0), lastGroundBefore |-> 0 ]

\* The reusable objects of the module.  A vector or quaternion is known by
\* what was last written to it and by which step; `old` marks contents
\* written before the frame now running.  ray_0 holds two references:
\* origin and dir name the object each one aliases ("vec3_0", "vec3_1", or
\* the constant "DOWN" or "UP").  reads is the record of the frame: every
\* read of a reusable object, with what the reader meant to read and what
\* it found.
Written(what, by) == [what |-> what, by |-> by, old |-> FALSE]

\* the objects as the module creates them, and
\* ray_0 = new RAPIER.Ray(vec3_0, vec3_0) of initPhysics
ScratchInit ==
  [ vec3_0 |-> [what |-> "zero", by |-> "module", old |-> TRUE],
    vec3_1 |-> [what |-> "zero", by |-> "module", old |-> TRUE],
    quaternion_0 |-> [what |-> "identity", by |-> "module", old |-> TRUE],
    quaternion_1 |-> [what |-> "identity", by |-> "module", old |-> TRUE],
    ray_0 |-> [origin |-> "vec3_0", dir |-> "vec3_0"],
    reads |-> <<>> ]

\* a new frame begins: what the objects hold is from an earlier frame
Aged(s) ==
  [s EXCEPT !.vec3_0.old = TRUE, !.vec3_1.old = TRUE,
            !.quaternion_0.old = TRUE, !.quaternion_1.old = TRUE,
            !.reads = <<>>]

\* what a reference leads to: the constants DOWN and UP are never written
Holds(s, ref) ==
  IF ref \in {"DOWN", "UP"}
  THEN [what |-> ref, by |-> "constant", old |-> FALSE]
  ELSE s[ref]

\* copy, set, setFromAxisAngle, applyQuaternion, ... on a reusable object
Overwrite(s, slot, what, by) == [s EXCEPT ![slot] = Written(what, by)]

\* a step reads a reusable object directly
ReadSlot(s, slot, wants, by) ==
  [s EXCEPT !.reads = Append(@, [ reader |-> "direct", by |-> by, wants |-> wants,
                                  ref |-> slot, got |-> Holds(s, slot) ])]

\* castRay or pointAt reads ray_0: its origin and its direction, through
\* the references the ray holds
ReadRay(s, reader, wantsOrigin, wantsDir, by) ==
  [s EXCEPT !.reads = @ \o
     << [ reader |-> reader, by |-> by, wants |-> wantsOrigin,
          ref |-> s.ray_0.origin, got |-> Holds(s, s.ray_0.origin) ],
        [ reader |-> reader, by |-> by, wants |-> wantsDir,
          ref |-> s.ray_0.dir, got |-> Holds(s, s.ray_0.dir) ] >>]

\* updateRotation: qx = quaternion_0.setFromAxisAngle, qz =
\* quaternion_1.setFromAxisAngle, q = qx.multiply(qz) (in place, in
\* quaternion_0), this.quaternion.copy(q)
rotationScratch(s) ==
  LET s1 == Overwrite(s, "quaternion_0", "qx", "rotation")
      s2 == Overwrite(s1, "quaternion_1", "qz", "rotation")
      s3 == ReadSlot(ReadSlot(s2, "quaternion_0", "qx", "rotation"),
                     "quaternion_1", "qz", "rotation")
      s4 == Overwrite(s3, "quaternion_0", "q", "rotation")
  IN  ReadSlot(s4, "quaternion_0", "q", "rotation")

\* updateTranslation: qx = quaternion_1.setFromAxisAngle; vec3_0 = FORWARD
\* rotated by qx and scaled; vec3_1 = LEFT rotated by qx and scaled; both
\* added to the position
translationScratch(s) ==
  LET s1 == Overwrite(s, "quaternion_1", "qx", "translation")
      s2 == Overwrite(s1, "vec3_0", "FORWARD", "translation")
      s3 == ReadSlot(ReadSlot(s2, "vec3_0", "FORWARD", "translation"),
                     "quaternion_1", "qx", "translation")
      s4 == Overwrite(s3, "vec3_0", "forwardStep", "translation")
      s5 == Overwrite(s4, "vec3_1", "LEFT", "translation")
      s6 == ReadSlot(ReadSlot(s5, "vec3_1", "LEFT", "translation"),
                     "quaternion_1", "qx", "translation")
      s7 == Overwrite(s6, "vec3_1", "sideStep", "translation")
  IN  ReadSlot(ReadSlot(s7, "vec3_0", "forwardStep", "translation"),
               "vec3_1", "sideStep", "translation")

\* detectGround without `ray.dir = DOWN`: the downward cast goes wherever
\* the ray was left pointing
groundScratchDirectionKept(s, downHit) ==
  LET s1 == Overwrite(s, "vec3_0", "colliderPosition", "ground")
      s2 == ReadSlot(s1, "vec3_0", "colliderPosition", "ground")
      s3 == Overwrite(s2, "vec3_1", "rayOrigin", "ground")
      s4 == [s3 EXCEPT !.ray_0.origin = "vec3_1"]
      s5 == ReadRay(s4, "castRay:down", "rayOrigin", "DOWN", "ground")
  IN  IF downHit
      THEN ReadSlot(ReadRay(s5, "pointAt", "rayOrigin", "DOWN", "ground"),
                    "vec3_1", "rayOrigin", "ground")
      ELSE ReadRay([s5 EXCEPT !.ray_0.dir = "UP"],
                   "castRay:up", "rayOrigin", "UP", "ground")

\* detectGround: colliderPosition = vec3_0.copy(position), handed to
\* setTranslation; rayOrigin = vec3_1.copy(position) lowered to the foot;
\* ray.origin = rayOrigin, ray.dir = DOWN; the cast; on a hit pointAt and
\* rayOrigin.y; on a miss ray.dir = UP and the second cast
groundScratch(s, downHit) ==
  LET s1 == Overwrite(s, "vec3_0", "colliderPosition", "ground")
      s2 == ReadSlot(s1, "vec3_0", "colliderPosition", "ground")
      s3 == Overwrite(s2, "vec3_1", "rayOrigin", "ground")
      s4 == [s3 EXCEPT !.ray_0.origin = "vec3_1", !.ray_0.dir = "DOWN"]
      s5 == ReadRay(s4, "castRay:down", "rayOrigin", "DOWN", "ground")
  IN  IF downHit
      THEN ReadSlot(ReadRay(s5, "pointAt", "rayOrigin", "DOWN", "ground"),
                    "vec3_1", "rayOrigin", "ground")
      ELSE ReadRay([s5 EXCEPT !.ray_0.dir = "UP"],
                   "castRay:up", "rayOrigin", "UP", "ground")

\* updateCamera: cameraOffset = vec3_0.set(..), added to the camera
\* position; in first person rayOrigin = vec3_1.copy(camera.position),
\* rayDirection = vec3_0.set(0, 0, -1) rotated and normalised, ray.origin =
\* rayOrigin, ray.dir = rayDirection, the cast; on a hit pointAt, then
\* hitPoint = vec3_0.set(point), handed to lookAt
cameraScratch(s, firstPerson, hit) ==
  LET s1 == Overwrite(s, "vec3_0", "cameraOffset", "camera")
      s2 == ReadSlot(s1, "vec3_0", "cameraOffset", "camera")
      s3 == Overwrite(s2, "vec3_1", "rayOrigin", "camera")
      s4 == Overwrite(s3, "vec3_0", "rayDirection", "camera")
      s5 == [s4 EXCEPT !.ray_0.origin = "vec3_1", !.ray_0.dir = "vec3_0"]
      s6 == ReadRay(s5, "castRay:forward", "rayOrigin", "rayDirection", "camera")
      s7 == ReadRay(s6, "pointAt", "rayOrigin", "rayDirection", "camera")
      s8 == Overwrite(s7, "vec3_0", "hitPoint", "camera")
  IN  IF ~firstPerson THEN s2
      ELSE IF ~hit THEN s6
      ELSE ReadSlot(s8, "vec3_0", "hitPoint", "camera")

\* a step of update() appends its name to the trace of the frame
Ran(w, name) == [w EXCEPT !.steps = Append(@, name)]

\* updateRotation with the pitch left as it comes
updateRotationUnclamped(w) ==
  LET in == w.input
      \* xh * PHI_SPEED and yh * THETA_SPEED, in angle units
      windowSize == w.renderSize
      dPhi == (in.mouseXDelta * PHI_SPEED) \div windowSize.width
      dTheta == (in.mouseYDelta * THETA_SPEED) \div windowSize.height
  IN  Ran([w EXCEPT !.body.phi = @ - dPhi,
                    !.body.theta = @ - dTheta],
          "rotation")

\* updateRotation()
updateRotation(w) ==
  LET in == w.input
      \* xh * PHI_SPEED and yh * THETA_SPEED, in angle units
      windowSize == w.renderSize
      dPhi == (in.mouseXDelta * PHI_SPEED) \div windowSize.width
      dTheta == (in.mouseYDelta * THETA_SPEED) \div windowSize.height
  IN  Ran([w EXCEPT !.body.phi = @ - dPhi,
                    !.body.theta = clamp(@ - dTheta, -HALF_PI, HALF_PI),
                    !.scratch = rotationScratch(@)],
          "rotation")

\* shiftSpeedUpAction that looks at the left shift key only
shiftSpeedUpActionLeftOnly(in) ==
  runActionByOneKey(in, {"ShiftLeft"}, SPRINT, 1)

\* shiftSpeedUpAction: FIVE with a shift key down, ONE otherwise
shiftSpeedUpAction(in) ==
  runActionByOneKey(in, {"ShiftLeft", "ShiftRight"}, SPRINT, 1)

forwardVelocity(in) ==
  runActionByKey(in, "KeyW", shiftSpeedUpAction(in), 0)
    - runActionByKey(in, "KeyS", shiftSpeedUpAction(in), 0)

sideVelocity(in) ==
  runActionByKey(in, "KeyA", shiftSpeedUpAction(in), 0)
    - runActionByKey(in, "KeyD", shiftSpeedUpAction(in), 0)

\* FORWARD = (0, 0, -1) turned about UP by a: (-sin a, 0, -cos a), thousandths
ForwardAxis(a) == Vec(-Sin(a), 0, -Cos(a))
\* LEFT = (-1, 0, 0) turned about UP by a: (-cos a, 0, sin a), thousandths
LeftAxis(a) == Vec(-Cos(a), 0, Sin(a))

\* updateTranslation with the movement axes turned by the yaw alone, without
\* the quarter turn the code adds
updateTranslationNoQuarterTurn(w, timeDiff) ==
  LET in == w.input
      fv == forwardVelocity(in)
      sv == sideVelocity(in)
      a == w.body.phi
      f == ForwardAxis(a)
      l == LeftAxis(a)
      fs == fv * timeDiff * MOVE_SPEED
      ss == sv * timeDiff * MOVE_SPEED
      p == w.body.position
      elevationFactor == runActionByKey(in, "Space", 1, 0)
      h == IF w.hc.grounded THEN setJumpFactor(w.hc, elevationFactor) ELSE w.hc
      q == Vec(p.x + (f.x * fs) \div ONE_MILLI + (l.x * ss) \div ONE_MILLI,
               p.y + h.movePerFrame,
               p.z + (f.z * fs) \div ONE_MILLI + (l.z * ss) \div ONE_MILLI)
  IN  Ran([w EXCEPT !.body.position = q,
                    !.body.isMoving2D = (fv # 0 \/ sv # 0),
                    !.hc = h],
          "translation")

\* updateTranslation committing the jump factor whether grounded or not
updateTranslationCommitsAirborne(w, timeDiff) ==
  LET in == w.input
      fv == forwardVelocity(in)
      sv == sideVelocity(in)
      a == w.body.phi + HALF_PI
      f == ForwardAxis(a)
      l == LeftAxis(a)
      fs == fv * timeDiff * MOVE_SPEED
      ss == sv * timeDiff * MOVE_SPEED
      p == w.body.position
      elevationFactor == runActionByKey(in, "Space", 1, 0)
      h == setJumpFactor(w.hc, elevationFactor)
      q == Vec(p.x + (f.x * fs) \div ONE_MILLI + (l.x * ss) \div ONE_MILLI,
               p.y + h.movePerFrame,
               p.z + (f.z * fs) \div ONE_MILLI + (l.z * ss) \div ONE_MILLI)
  IN  Ran([w EXCEPT !.body.position = q,
                    !.body.isMoving2D = (fv # 0 \/ sv # 0),
                    !.hc = h],
          "translation")

\* updateTranslation clearing the grounded flag itself when a jump is taken
updateTranslationLeavesGround(w, timeDiff) ==
  LET in == w.input
      fv == forwardVelocity(in)
      sv == sideVelocity(in)
      a == w.body.phi + HALF_PI
      f == ForwardAxis(a)
      l == LeftAxis(a)
      fs == fv * timeDiff * MOVE_SPEED
      ss == sv * timeDiff * MOVE_SPEED
      p == w.body.position
      elevationFactor == runActionByKey(in, "Space", 1, 0)
      h == IF w.hc.grounded
           THEN setGrounded(setJumpFactor(w.hc, elevationFactor), elevationFactor = 0)
           ELSE w.hc
      q == Vec(p.x + (f.x * fs) \div ONE_MILLI + (l.x * ss) \div ONE_MILLI,
               p.y + h.movePerFrame,
               p.z + (f.z * fs) \div ONE_MILLI + (l.z * ss) \div ONE_MILLI)
  IN  Ran([w EXCEPT !.body.position = q,
                    !.body.isMoving2D = (fv # 0 \/ sv # 0),
                    !.hc = h],
          "translation")

\* updateTranslation(timeDiff)
updateTranslation(w, timeDiff) ==
  LET in == w.input
      fv == forwardVelocity(in)
      sv == sideVelocity(in)
      a == w.body.phi + HALF_PI
      f == ForwardAxis(a)
      l == LeftAxis(a)
      fs == fv * timeDiff * MOVE_SPEED
      ss == sv * timeDiff * MOVE_SPEED
      p == w.body.position
      elevationFactor == runActionByKey(in, "Space", 1, 0)
      h == IF w.hc.grounded THEN setJumpFactor(w.hc, elevationFactor) ELSE w.hc
      q == Vec(p.x + (f.x * fs) \div ONE_MILLI + (l.x * ss) \div ONE_MILLI,
               p.y + h.movePerFrame,
               p.z + (f.z * fs) \div ONE_MILLI + (l.z * ss) \div ONE_MILLI)
  IN  Ran([w EXCEPT !.body.position = q,
                    !.body.isMoving2D = (fv # 0 \/ sv # 0),
                    !.hc = h,
                    !.scratch = translationScratch(@)],
          "translation")

\* updateGravity(timestamp, timeDiff)
updateGravity(w, timestamp) ==
  Ran([w EXCEPT !.hc = heightUpdate(@, timestamp)], "gravity")

\* detectGround taking a foot exactly on the surface (distance 0) as not
\* grounded
detectGroundStrict(w) ==
  LET avatarHalfHeight == AVATAR_HEIGHT \div 2
      p == w.body.position
      rayOrigin == [p EXCEPT !.y = @ - avatarHalfHeight]
      down == castRayDown(rayOrigin, RAY_LENGTH)
      hitY == rayOrigin.y - down
      distance == rayOrigin.y - hitY
      up == castRayUp(rayOrigin, avatarHalfHeight)
      w1 == [w EXCEPT !.collider = p]
      w2 == IF down # NoHit
            THEN IF distance < 0
                 THEN [w1 EXCEPT !.hc = setGrounded(@, TRUE)]
                 ELSE [w1 EXCEPT !.hc = setGrounded(
                         [@ EXCEPT !.lastGroundHeight = hitY + avatarHalfHeight],
                         FALSE)]
            ELSE IF up # NoHit
                 THEN [w1 EXCEPT !.body.position.y = w.hc.lastGroundHeight,
                                 !.hc = setGrounded(@, TRUE)]
                 ELSE [w1 EXCEPT !.hc = setGrounded(@, FALSE)]
  IN  Ran([w2 EXCEPT !.probe =
             [ originY |-> rayOrigin.y, down |-> down,
               up |-> IF down = NoHit THEN up ELSE NoHit,
               upCast |-> (down = NoHit),
               before |-> p, lastGroundBefore |-> w.hc.lastGroundHeight ]],
          "ground")

\* detectGround that reports the ground on an upward hit but leaves the body
\* where it is
detectGroundNoSnap(w) ==
  LET avatarHalfHeight == AVATAR_HEIGHT \div 2
      p == w.body.position
      rayOrigin == [p EXCEPT !.y = @ - avatarHalfHeight]
      down == castRayDown(rayOrigin, RAY_LENGTH)
      hitY == rayOrigin.y - down
      distance == rayOrigin.y - hitY
      up == castRayUp(rayOrigin, avatarHalfHeight)
      w1 == [w EXCEPT !.collider = p]
      w2 == IF down # NoHit
            THEN IF distance <= 0
                 THEN [w1 EXCEPT !.hc = setGrounded(@, TRUE)]
                 ELSE [w1 EXCEPT !.hc = setGrounded(
                         [@ EXCEPT !.lastGroundHeight = hitY + avatarHalfHeight],
                         FALSE)]
            ELSE IF up # NoHit
                 THEN [w1 EXCEPT !.hc = setGrounded(@, TRUE)]
                 ELSE [w1 EXCEPT !.hc = setGrounded(@, FALSE)]
  IN  Ran([w2 EXCEPT !.probe =
             [ originY |-> rayOrigin.y, down |-> down,
               up |-> IF down = NoHit THEN up ELSE NoHit,
               upCast |-> (down = NoHit),
               before |-> p, lastGroundBefore |-> w.hc.lastGroundHeight ]],
          "ground")

\* detectGround that does not record the height of a hit below the foot
detectGroundKeepsLastGround(w) ==
  LET avatarHalfHeight == AVATAR_HEIGHT \div 2
      p == w.body.position
      rayOrigin == [p EXCEPT !.y = @ - avatarHalfHeight]
      down == castRayDown(rayOrigin, RAY_LENGTH)
      \* hitPoint.y = rayOrigin.y - toi, so distance = rayOrigin.y - hitPoint.y
      hitY == rayOrigin.y - down
      distance == rayOrigin.y - hitY
      up == castRayUp(rayOrigin, avatarHalfHeight)
      w1 == [w EXCEPT !.collider = p]
      w2 == IF down # NoHit
            THEN IF distance <= 0
                 THEN [w1 EXCEPT !.hc = setGrounded(@, TRUE)]
                 ELSE [w1 EXCEPT !.hc = setGrounded(@, FALSE)]
            ELSE IF up # NoHit
                 THEN [w1 EXCEPT !.body.position.y = w.hc.lastGroundHeight,
                                 !.hc = setGrounded(@, TRUE)]
                 ELSE [w1 EXCEPT !.hc = setGrounded(@, FALSE)]
  IN  Ran([w2 EXCEPT !.probe =
             [ originY |-> rayOrigin.y, down |-> down,
               up |-> IF down = NoHit THEN up ELSE NoHit,
               upCast |-> (down = NoHit),
               before |-> p, lastGroundBefore |-> w.hc.lastGroundHeight ]],
          "ground")

\* detectGround(): the two rays from the foot of the avatar
detectGround(w) ==
  LET avatarHalfHeight == AVATAR_HEIGHT \div 2
      p == w.body.position
      rayOrigin == [p EXCEPT !.y = @ - avatarHalfHeight]
      down == castRayDown(rayOrigin, RAY_LENGTH)
      \* hitPoint.y = rayOrigin.y - toi, so distance = rayOrigin.y - hitPoint.y
      hitY == rayOrigin.y - down
      distance == rayOrigin.y - hitY
      up == castRayUp(rayOrigin, avatarHalfHeight)
      w1 == [w EXCEPT !.collider = p]
      w2 == IF down # NoHit
            THEN IF distance <= 0
                 THEN [w1 EXCEPT !.hc = setGrounded(@, TRUE)]
                 ELSE [w1 EXCEPT !.hc = setGrounded(
                         [@ EXCEPT !.lastGroundHeight = hitY + avatarHalfHeight],
                         FALSE)]
            ELSE IF up # NoHit
                 THEN [w1 EXCEPT !.body.position.y = w.hc.lastGroundHeight,
                                 !.hc = setGrounded(@, TRUE)]
                 ELSE [w1 EXCEPT !.hc = setGrounded(@, FALSE)]
  IN  Ran([w2 EXCEPT !.probe =
             [ originY |-> rayOrigin.y, down |-> down,
               up |-> IF down = NoHit THEN up ELSE NoHit,
               upCast |-> (down = NoHit),
               before |-> p, lastGroundBefore |-> w.hc.lastGroundHeight ],
                     !.scratch = groundScratch(@, down # NoHit)],
          "ground")

\* updateZoom(timestamp, timeDiff)
updateZoom(w, timestamp) ==
  Ran([w EXCEPT !.zc = zoomUpdate(@, w.input.mouseWheelDelta, timestamp)], "zoom")

\* isFirstPerson = zoom <= avatar.width
isFirstPerson(z) == z.zoom * ZOOM_TO_LENGTH <= AVATAR_WIDTH

\* cameraOffset = (r cos(-phi), r cos(theta + HALF_PI), r sin(-phi)), r = zoom
cameraOffset(b, z) ==
  LET r == z.zoom * ZOOM_TO_LENGTH
  IN  Vec((r * Cos(-b.phi)) \div ONE_MILLI,
          (r * Cos(b.theta + HALF_PI)) \div ONE_MILLI,
          (r * Sin(-b.phi)) \div ONE_MILLI)

\* updateCamera querying the head bob and adding its offset at every zoom
updateCameraAlwaysBobs(w, timeDiff, fwd) ==
  LET p == w.body.position
      o == cameraOffset(w.body, w.zc)
      c == Vec(p.x + o.x, p.y + o.y, p.z + o.z)
      bob == getHeadBob(w.hb, timeDiff, w.body.isMoving2D)
      sc == cameraScratch(w.scratch, isFirstPerson(w.zc), fwd # NoHit)
      first == isFirstPerson(w.zc)
  IN  Ran([w EXCEPT !.hb = bob,
                    !.camera = [ position |-> [c EXCEPT !.y = @ + bob.headBobAmount],
                                 lookAt |-> IF first /\ fwd # NoHit THEN "hit" ELSE "body",
                                 hitToi |-> IF first /\ fwd # NoHit THEN fwd ELSE 0 ],
                    !.scratch = sc],
          "camera")

\* updateCamera reading the hit of the first-person ray without testing it:
\* hit.toi of a missing hit is a TypeError, and the step does not complete
updateCameraUnguarded(w, timeDiff, fwd) ==
  LET p == w.body.position
      o == cameraOffset(w.body, w.zc)
      c == Vec(p.x + o.x, p.y + o.y, p.z + o.z)
      bob == getHeadBob(w.hb, timeDiff, w.body.isMoving2D)
  IN  IF isFirstPerson(w.zc)
      THEN IF fwd # NoHit
           THEN Ran([w EXCEPT !.hb = bob,
                              !.camera = [ position |-> [c EXCEPT !.y = @ + bob.headBobAmount],
                                           lookAt |-> "hit", hitToi |-> fwd ]],
                    "camera")
           ELSE Ran([w EXCEPT !.hb = bob], "TypeError")
      ELSE Ran([w EXCEPT !.camera = [position |-> c, lookAt |-> "body", hitToi |-> 0]],
               "camera")

\* updateCamera(timestamp, timeDiff); fwd is what the first-person ray returns
updateCamera(w, timeDiff, fwd) ==
  LET p == w.body.position
      o == cameraOffset(w.body, w.zc)
      c == Vec(p.x + o.x, p.y + o.y, p.z + o.z)
      bob == getHeadBob(w.hb, timeDiff, w.body.isMoving2D)
      sc == cameraScratch(w.scratch, isFirstPerson(w.zc), fwd # NoHit)
  IN  Ran(IF isFirstPerson(w.zc)
          THEN [w EXCEPT !.hb = bob,
                         !.camera = [ position |-> [c EXCEPT !.y = @ + bob.headBobAmount],
                                      lookAt |-> IF fwd # NoHit THEN "hit" ELSE "body",
                                      hitToi |-> IF fwd # NoHit THEN fwd ELSE 0 ],
                         !.scratch = sc]
          ELSE [w EXCEPT !.camera = [position |-> c, lookAt |-> "body", hitToi |-> 0],
                         !.scratch = sc],
          "camera")

\* inputManager.update()
resetInput(w) == Ran([w EXCEPT !.input = inputUpdate(@)], "inputReset")

\* CharacterController.update(timestamp, timeDiff)
\* update with the ground detection run before the vertical motion update
characterUpdateGroundFirst(w, timestamp, timeDiff, fwd) ==
  LET w1 == updateRotation([w EXCEPT !.steps = <<>>, !.scratch = Aged(@)])
      w2 == updateTranslation(w1, timeDiff)
      w3 == detectGround(w2)
      w4 == updateGravity(w3, timestamp)
      w5 == updateZoom(w4, timestamp)
      w6 == updateCamera(w5, timeDiff, fwd)
  IN  resetInput(w6)

\* update with the vertical motion update run before the translation
characterUpdateGravityFirst(w, timestamp, timeDiff, fwd) ==
  LET w1 == updateRotation([w EXCEPT !.steps = <<>>, !.scratch = Aged(@)])
      w2 == updateGravity(w1, timestamp)
      w3 == updateTranslation(w2, timeDiff)
      w4 == detectGround(w3)
      w5 == updateZoom(w4, timestamp)
      w6 == updateCamera(w5, timeDiff, fwd)
  IN  resetInput(w6)

characterUpdate(w, timestamp, timeDiff, fwd) ==
  LET w1 == updateRotation([w EXCEPT !.steps = <<>>, !.scratch = Aged(@)])
      w2 == updateTranslation(w1, timeDiff)
      w3 == updateGravity(w2, timestamp)
      w4 == detectGround(w3)
      w5 == updateZoom(w4, timestamp)
      w6 == updateCamera(w5, timeDiff, fwd)
  IN  resetInput(w6)

\* AvatarController.update(timestamp, timeDiff)
avatarUpdate(w, timestamp, timeDiff, fwd) ==
  LET w1 == characterUpdate(w, timestamp, timeDiff, fwd)
  IN  [w1 EXCEPT !.body.avatarPosition = w1.body.position]

-----------------------------------------------------------------------------
(* TickManager and the system *)

\* useRenderSize() after initEngine: the window's inner size
RenderSizeInit == [width |-> RENDER_WIDTH, height |-> RENDER_HEIGHT]

\* a physics object as addPhysics registers it: the mesh it moves, whether
\* the loop copies the collider's transform to the mesh, whether it has a
\* post-physics callback
PhysicsObject(mesh, autoAnimate, fn) ==
  [mesh |-> mesh, autoAnimate |-> autoAnimate, fn |-> fn]

\* the character's capsule, whose mesh is the CharacterController itself
\* the character registered as an auto-animated object
CharacterObjectAutoAnimate == PhysicsObject("character", TRUE, FALSE)

CharacterObject == PhysicsObject("character", FALSE, FALSE)

GroundObject == PhysicsObject("ground", TRUE, TRUE)

CubeObject == PhysicsObject("cube", TRUE, FALSE)

NUM_CUBES == 10

\* the registry once initEngine and startApp have run: the character, the
\* ground, the cubes
SceneObjects ==
  <<CharacterObject, GroundObject>> \o [i \in 1..NUM_CUBES |-> CubeObject]

\* the engine once initEngine and startApp have run
EngineInit ==
  [ renderer |-> TRUE, physics |-> TRUE, loop |-> "registered",
    physicsObjects |-> SceneObjects, diagnostics |-> 0, failure |-> "none",
    lastAdd |-> [desc |-> "none", returned |-> FALSE] ]

\* constructor; no frame has run, nothing is rendered yet
TickInit ==
  [ timestamp |-> 0, timeDiff |-> 0, lastTimestamp |-> 0,
    passed |-> [timestamp |-> 0, timeDiff |-> 0],
    order |-> <<>>, rendered |-> CameraInit ]

\* the host times at which startLoop may be called: the first animation
\* frame comes later than that, and how late the page was is not bounded by
\* the program
StartClocks == {27, 30}

World ==
  [ input |-> input, body |-> body, hc |-> hc, zc |-> zc, hb |-> hb,
    camera |-> camera, collider |-> collider, steps |-> steps, probe |-> probe,
    renderSize |-> renderSize, engine |-> engine, scratch |-> scratch ]

SetWorld(w) ==
  /\ input' = w.input
  /\ body' = w.body
  /\ hc' = w.hc
  /\ zc' = w.zc
  /\ hb' = w.hb
  /\ camera' = w.camera
  /\ collider' = w.collider
  /\ steps' = w.steps
  /\ scratch' = w.scratch
  /\ probe' = w.probe

\* no key of the controller reads as down, and no mouse delta is pending
NoInput(in) ==
  /\ \A k \in KEYS : ~isKeyDown(in, k)
  /\ in.mouseXDelta = 0
  /\ in.mouseYDelta = 0

\* grounded with no vertical motion pending
AtRest(h) == h.grounded /\ h.movePerFrame = 0

ZoomInterrupted(z, zoomLevel) == z.isAnimating /\ zoomLevel # z.lastZoomLevel

ObsInit ==
  [ restFrames |-> 0, restOrigin |-> Vec(0, 0, 0),
    jumping |-> FALSE, jumpStart |-> 0, jumpFrom |-> 0,
    groundedCallAt |-> 0, zoomInterrupted |-> FALSE, bobMoved |-> FALSE,
    bobIdle |-> FALSE,
    lastKeyEvent |-> [k \in KEYS |-> "none"],
    releasedUnlocked |-> [k \in KEYS |-> FALSE] ]

\* history kept across a frame that starts in world w at `timestamp`:
\*   restFrames/restOrigin: the run of consecutive frames that started at
\*     rest with no input, and the position at the start of the run
\*   jumping/jumpStart/jumpFrom: the last frame in which a jump of strength 1
\*     was committed while grounded at rest (jump factor 0 before), its
\*     timestamp and the body's height before it
\*   groundedCallAt: the timestamp of the last HeightController.update call
\*     made with grounded = true, 0 before the first
\*   zoomInterrupted: the last ZoomController.update call changed the level
\*     while an animation was running
\*   bobMoved: some getHeadBob call so far may have been made with isMoving
\*     true
\*   bobIdle: the last direct getHeadBob call was made with isMoving false
\*     and found the bob inactive
\*   lastKeyEvent: per key, the kind of the last keyboard event the input
\*     manager accepted (it arrived while the pointer was locked)
\*   releasedUnlocked: per key, a key-up has arrived while the pointer was
\*     not locked and the key was recorded as down, and no event for the key
\*     has been accepted since
ObserveFrame(o, w, timestamp) ==
  LET rest == AtRest(w.hc) /\ NoInput(w.input)
      jump == AtRest(w.hc) /\ w.hc.jumpFactor = 0 /\ isKeyDown(w.input, "Space")
  IN  [ restFrames |-> IF rest THEN o.restFrames + 1 ELSE 0,
        restOrigin |-> IF rest /\ o.restFrames = 0 THEN w.body.position
                       ELSE o.restOrigin,
        jumping |-> o.jumping \/ jump,
        jumpStart |-> IF jump THEN timestamp ELSE o.jumpStart,
        jumpFrom |-> IF jump THEN w.body.position.y ELSE o.jumpFrom,
        groundedCallAt |-> IF w.hc.grounded THEN timestamp ELSE o.groundedCallAt,
        zoomInterrupted |-> ZoomInterrupted(w.zc, w.input.mouseWheelDelta),
        bobMoved |-> o.bobMoved \/ forwardVelocity(w.input) # 0
                                \/ sideVelocity(w.input) # 0,
        bobIdle |-> o.bobIdle,
        lastKeyEvent |-> o.lastKeyEvent,
        releasedUnlocked |-> o.releasedUnlocked ]

ControllerInit ==
  /\ input = InputInit
  /\ body = BodyInit
  /\ hc = HeightInit
  /\ zc = ZoomInit
  /\ hb = HeadBobInit
  /\ camera = CameraInit
  /\ collider = BodyInit.position
  /\ tm = TickInit
  /\ renderSize = RenderSizeInit
  /\ engine = EngineInit
  /\ steps = <<>>
  /\ scratch = ScratchInit
  /\ probe = ProbeInit
  /\ op = "init"
  /\ obs = ObsInit
  /\ events = 0

Init ==
  /\ clock \in StartClocks
  /\ ControllerInit

\* the timestamps the host may hand to the next animation frame: later than
\* the last one, here by no more than the frame-time cap
NextTimestamps == (clock + 1)..Min(clock + MAX_FRAME_TIME, MaxTime)

\* the frame time capped from above only
timeDiffCappedAbove(timeDiff) == Min(timeDiff, MAX_FRAME_TIME)

\* timeDiffCapped = Math.min(Math.max(timeDiff, 0), 100)
timeDiffCapped(timeDiff) == Min(Max(timeDiff, 0), MAX_FRAME_TIME)

\* a step of the animation callback, and what it works on
FrameStep(name, on) == [step |-> name, on |-> on]

\* the loop over physicsObjects: the steps it takes, in order
RECURSIVE syncSteps(_)
syncSteps(objects) ==
  IF objects = <<>> THEN <<>>
  ELSE LET po == Head(objects)
       IN  (IF po.autoAnimate THEN <<FrameStep("sync", po.mesh)>> ELSE <<>>)
           \o (IF po.fn THEN <<FrameStep("callback", po.mesh)>> ELSE <<>>)
           \o syncSteps(Tail(objects))

\* the loop over physicsObjects, as far as the character goes: an
\* auto-animated object has its mesh's position overwritten with the
\* collider's translation.  The other meshes are not part of the model.
syncObjects(w) ==
  IF \E i \in DOMAIN w.engine.physicsObjects :
       /\ w.engine.physicsObjects[i].mesh = "character"
       /\ w.engine.physicsObjects[i].autoAnimate
  THEN [w EXCEPT !.body.position = w.collider]
  ELSE w

\* animate rendering before the character update
animateRendersFirst(w, t, timestamp, fwd) ==
  LET timeDiff == timestamp - t.lastTimestamp
      w0 == syncObjects(w)
      w1 == avatarUpdate(w0, timestamp, timeDiffCapped(timeDiff), fwd)
  IN  [ w |-> w1,
        tm |-> [ timestamp |-> timestamp, timeDiff |-> timeDiff,
                 lastTimestamp |-> timestamp,
                 passed |-> [timestamp |-> timestamp, timeDiff |-> timeDiffCapped(timeDiff)],
                 order |-> <<FrameStep("physicsStep", "world")>>
                           \o syncSteps(w.engine.physicsObjects)
                           \o << FrameStep("render", "scene"),
                                 FrameStep("controlsUpdate", "character"),
                                 FrameStep("tick", "listeners"),
                                 FrameStep("stats", "panel") >>,
                 rendered |-> w0.camera ] ]

\* animate(timestamp, frame): physics.step(), the loop over physicsObjects,
\* fps and lastTimestamp, controls.update, composer.render(), tick(),
\* stats.update().  fps and the stats panel are display only.
animate(w, t, timestamp, fwd) ==
  LET timeDiff == timestamp - t.lastTimestamp
      w0 == syncObjects(w)
      w1 == avatarUpdate(w0, timestamp, timeDiffCapped(timeDiff), fwd)
  IN  [ w |-> w1,
        tm |-> [ timestamp |-> timestamp, timeDiff |-> timeDiff,
                 lastTimestamp |-> timestamp,
                 passed |-> [timestamp |-> timestamp, timeDiff |-> timeDiffCapped(timeDiff)],
                 order |-> <<FrameStep("physicsStep", "world")>>
                           \o syncSteps(w.engine.physicsObjects)
                           \o << FrameStep("controlsUpdate", "character"),
                                 FrameStep("render", "scene"),
                                 FrameStep("tick", "listeners"),
                                 FrameStep("stats", "panel") >>,
                 rendered |-> w1.camera ] ]

Animate ==
  \E timestamp \in NextTimestamps, fwd \in ForwardHits :
    LET r == animate(World, tm, timestamp, fwd)
    IN  /\ engine.loop = "registered"
        /\ engine.physics
        /\ SetWorld(r.w)
        /\ tm' = r.tm
        /\ clock' = timestamp
        /\ op' = "animate"
        /\ obs' = ObserveFrame(obs, World, timestamp)
        /\ UNCHANGED <<renderSize, engine, events>>

\* an input event leaves everything but the input manager alone
InputEvent(in, name) ==
  /\ events < MaxEvents
  /\ events' = events + 1
  /\ input' = in
  /\ op' = name
  /\ UNCHANGED <<clock, body, hc, zc, hb, camera, collider, tm, renderSize, engine, steps, scratch,
                 probe, obs>>

PointerLockChange ==
  \E locked \in BOOLEAN : InputEvent(setPointerLocked(input, locked), "pointerlockchange")

\* the keys pressed in the runs of the whole pipeline
PipelineKeys == {"KeyW", "Space"}

\* a keyboard event of the given kind ("down" or "up") for the key
KeyHandled(code, kind) ==
  /\ input' = IF kind = "down" THEN onKeyDown(input, code) ELSE onKeyUp(input, code)
  /\ obs' = [obs EXCEPT
               !.lastKeyEvent[code] = IF input.pointerLocked THEN kind ELSE @,
               !.releasedUnlocked[code] =
                  IF input.pointerLocked THEN FALSE
                  ELSE @ \/ (kind = "up" /\ input.currentKeys[code])]
  /\ op' = IF kind = "down" THEN "keydown" ELSE "keyup"
  /\ UNCHANGED <<clock, body, hc, zc, hb, camera, collider, tm, renderSize, engine, steps, scratch,
                 probe>>

KeyEvent(code, kind) ==
  /\ events < MaxEvents
  /\ events' = events + 1
  /\ KeyHandled(code, kind)

KeyDown == \E code \in PipelineKeys : KeyEvent(code, "down")

KeyUp == \E code \in PipelineKeys : KeyEvent(code, "up")

Next == Animate \/ PointerLockChange \/ KeyDown \/ KeyUp

Spec == Init /\ [][Next]_vars

-----------------------------------------------------------------------------
(* The controllers driven directly, method by method *)

\* the timestamps a direct caller may pass: not earlier than the last one
CallTimestamps == clock..Min(clock + MAX_FRAME_TIME, MaxTime)

Call(name, timestamp) ==
  /\ clock' = timestamp
  /\ op' = name

\* zoom levels a caller may pass to ZoomController.update besides those the
\* wheel produces: below MIN_ZOOM_LEVEL and above MAX_ZOOM_LEVEL
ZoomLevels == {-5 * SCROLL_LEVEL_STEP, 3 * MAX_ZOOM_LEVEL}

\* ZoomController.update called with any level; a level other than the last
\* one counts as an input event
ZoomUpdate ==
  \E zoomLevel \in ZoomLevels \cup {zc.lastZoomLevel}, timestamp \in CallTimestamps :
    /\ zoomLevel # zc.lastZoomLevel => events < MaxEvents
    /\ events' = IF zoomLevel # zc.lastZoomLevel THEN events + 1 ELSE events
    /\ zc' = zoomUpdate(zc, zoomLevel, timestamp)
    /\ obs' = [obs EXCEPT !.zoomInterrupted = ZoomInterrupted(zc, zoomLevel)]
    /\ Call("zoomUpdate", timestamp)
    /\ UNCHANGED <<input, body, hc, hb, camera, collider, tm, renderSize, engine, steps, scratch, probe>>

\* CharacterController.updateZoom: the level is the input's scroll value
UpdateZoom ==
  \E timestamp \in CallTimestamps :
    /\ zc' = zoomUpdate(zc, input.mouseWheelDelta, timestamp)
    /\ obs' = [obs EXCEPT !.zoomInterrupted =
                            ZoomInterrupted(zc, input.mouseWheelDelta)]
    /\ Call("updateZoom", timestamp)
    /\ UNCHANGED <<input, body, hc, hb, camera, collider, tm, renderSize, engine, steps, scratch, probe,
                   events>>

MouseWheel ==
  \E deltaY \in {-1, 0, 1} : InputEvent(onMouseWheel(input, deltaY), "wheel")

NextZoom == ZoomUpdate \/ UpdateZoom \/ PointerLockChange \/ MouseWheel

SpecZoom == Init /\ [][NextZoom]_vars

\* HeightController.setGrounded / setJumpFactor / update called directly
SetGrounded ==
  \E grounded \in BOOLEAN :
    /\ events < MaxEvents
    /\ events' = events + 1
    /\ hc' = setGrounded(hc, grounded)
    /\ op' = "setGrounded"
    /\ UNCHANGED <<clock, input, body, zc, hb, camera, collider, tm, renderSize, engine, steps, scratch,
                   probe, obs>>

SetJumpFactor ==
  \E jumpFactor \in {0, 1} :
    /\ events < MaxEvents
    /\ events' = events + 1
    /\ hc' = setJumpFactor(hc, jumpFactor)
    /\ op' = "setJumpFactor"
    /\ UNCHANGED <<clock, input, body, zc, hb, camera, collider, tm, renderSize, engine, steps, scratch,
                   probe, obs>>

HeightUpdate ==
  \E timestamp \in CallTimestamps :
    /\ hc' = heightUpdate(hc, timestamp)
    /\ obs' = [obs EXCEPT !.groundedCallAt = IF hc.grounded THEN timestamp ELSE @]
    /\ Call("heightUpdate", timestamp)
    /\ UNCHANGED <<input, body, zc, hb, camera, collider, tm, renderSize, engine, steps, scratch, probe,
                   events>>

NextHeight == SetGrounded \/ SetJumpFactor \/ HeightUpdate

SpecHeight == Init /\ [][NextHeight]_vars

\* CharacterController.detectGround called directly on a body placed at a
\* height relative to the ground's top face: resting on it, 0.01 above it,
\* inside the slab, just below it, at the two ends of the up ray's and the
\* down ray's ranges, and beyond them; over the ground or beside it
FootHeights ==
  { GROUND_HALF_THICKNESS + d : d \in {0, 1, Hundredth, RAY_LENGTH, RAY_LENGTH + 1} }
  \cup { -GROUND_HALF_THICKNESS - d :
           d \in {-1, 0, 1, AVATAR_HEIGHT \div 2, AVATAR_HEIGHT \div 2 + 1} }
  \cup {0}

LastGroundHeights ==
  {0, GROUND_HALF_THICKNESS + AVATAR_HEIGHT \div 2, SPAWN_Y}

InitGround ==
  /\ clock \in StartClocks
  /\ input = InputInit
  /\ \E foot \in FootHeights, x \in {0, GROUND_HALF_EXTENT + AVATAR_WIDTH} :
       body = [BodyInit EXCEPT !.position = Vec(x, foot + AVATAR_HEIGHT \div 2, 0)]
  /\ \E last \in LastGroundHeights, grounded \in BOOLEAN :
       hc = [HeightInit EXCEPT !.lastGroundHeight = last, !.grounded = grounded]
  /\ zc = ZoomInit
  /\ hb = HeadBobInit
  /\ camera = CameraInit
  /\ collider = BodyInit.position
  /\ tm = TickInit
  /\ renderSize = RenderSizeInit
  /\ engine = EngineInit
  /\ steps = <<>>
  /\ scratch = ScratchInit
  /\ probe = ProbeInit
  /\ op = "init"
  /\ obs = ObsInit
  /\ events = 0

DetectGround ==
  /\ SetWorld(detectGround([World EXCEPT !.steps = <<>>, !.scratch = Aged(@)]))
  /\ op' = "detectGround"
  /\ UNCHANGED <<clock, tm, renderSize, engine, obs, events>>

NextGround == DetectGround

SpecGround == InitGround /\ [][NextGround]_vars

\* the whole frame loop run with the input held as a player left it before
\* the first frame: pointer lock on or off, any of forward, left and sprint
\* keys down, and a quarter turn of mouse movement to either side pending
HeldKeys == {"KeyW", "KeyA", "ShiftLeft"}

HeldInputs ==
  { [InputInit EXCEPT !.pointerLocked = locked,
                      !.currentKeys = [k \in KEYS |-> k \in held],
                      !.mouseXDelta = IF locked THEN mx ELSE 0] :
      locked \in BOOLEAN, held \in SUBSET HeldKeys, mx \in {-HALF_PI, 0, HALF_PI} }

InitWalk ==
  /\ clock \in StartClocks
  /\ input \in HeldInputs
  /\ body = BodyInit
  /\ hc = HeightInit
  /\ zc = ZoomInit
  /\ hb = HeadBobInit
  /\ camera = CameraInit
  /\ collider = BodyInit.position
  /\ tm = TickInit
  /\ renderSize = RenderSizeInit
  /\ engine = EngineInit
  /\ steps = <<>>
  /\ scratch = ScratchInit
  /\ probe = ProbeInit
  /\ op = "init"
  /\ obs = ObsInit
  /\ events = 0

NextWalk == Animate

SpecWalk == InitWalk /\ [][NextWalk]_vars

-----------------------------------------------------------------------------
(* Properties *)

UpdateOrder ==
  <<"rotation", "translation", "gravity", "ground", "zoom", "camera", "inputReset">>

\* C1: every frame runs exactly the seven steps of update(), in the order
\* rotation, translation, vertical motion, ground detection, zoom, camera,
\* input reset; the trace of a frame is complete in the state the frame
\* leaves, and no input event changes it
C1_UpdateRunsSevenStepsInOrder ==
  /\ op = "animate" => steps = UpdateOrder
  /\ steps \in {<<>>, UpdateOrder}

\* a frame has run after input events were delivered
C1_FrameRanAfterEvents ==
  op = "animate" /\ steps = UpdateOrder /\ events = MaxEvents

\* C2: in a run of consecutive frames that each started grounded, with no
\* vertical motion pending and no key or mouse input, the position is the
\* one the run started from, in all three coordinates, and the body is
\* still grounded
C2_NoDriftAtRest ==
  obs.restFrames > 0 => body.position = obs.restOrigin /\ hc.grounded

\* the body has stood still on the ground for three frames
C2_StoodThreeFrames ==
  /\ obs.restFrames >= 3
  /\ op = "animate"
  /\ hc.grounded
  /\ body.position.y = GROUND_HALF_THICKNESS + AVATAR_HEIGHT \div 2

\* only the forward key is down, the pointer is locked, no mouse movement is
\* pending
OnlyForwardHeld(in) ==
  /\ in.pointerLocked
  /\ \A k \in KEYS : in.currentKeys[k] <=> k = "KeyW"
  /\ in.mouseXDelta = 0
  /\ in.mouseYDelta = 0

JumpElapsed == clock - obs.jumpStart
JumpOffset == body.position.y - obs.jumpFrom

\* C4: after a jump of strength 1 is committed from rest on the ground, the
\* body's height above the height it jumped from is 0 at the start of the
\* jump window, JUMP_AMPLITUDE at its midpoint, 0 again at JUMP_DURATION and
\* between 0 and JUMP_AMPLITUDE in all of the window
C4_JumpOffsetFollowsCurve ==
  (obs.jumping /\ op = "animate" /\ JumpElapsed \in 0..JUMP_DURATION) =>
    /\ JumpOffset \in 0..JUMP_AMPLITUDE
    /\ JumpElapsed = 0 => JumpOffset = 0
    /\ JumpElapsed = JUMP_DURATION \div 2 => JumpOffset = JUMP_AMPLITUDE
    /\ JumpElapsed = JUMP_DURATION => JumpOffset = 0

\* C5 as the specification states it: a downward hit 0.01 below the foot
\* sets grounded
C5_NearFootGrounded ==
  (op = "detectGround" /\ probe.down = Hundredth) => hc.grounded

\* C5: a downward hit 0.01 below the foot leaves the body not grounded and
\* records the hit height plus half the avatar's height as the last ground
\* height; a downward hit sets grounded exactly when its distance is 0
C5_NearFootNotGrounded ==
  (op = "detectGround" /\ probe.down # NoHit) =>
    /\ hc.grounded <=> probe.down = 0
    /\ probe.down = Hundredth =>
         /\ ~hc.grounded
         /\ hc.lastGroundHeight = GROUND_HALF_THICKNESS + AVATAR_HEIGHT \div 2

\* detection has run with the foot 0.01 above the ground's top face
C5_FootHundredthAbove ==
  /\ op = "detectGround"
  /\ probe.originY = GROUND_HALF_THICKNESS + Hundredth
  /\ probe.down = Hundredth
  /\ ~hc.grounded

\* C6: when the downward ray misses and the upward ray hits, the body's
\* height becomes the last ground height recorded before and the body is
\* grounded; when both miss, the body is not grounded and stays where it was
C6_UpRayOutcome ==
  probe.upCast =>
    IF probe.up # NoHit
    THEN /\ body.position = [probe.before EXCEPT !.y = probe.lastGroundBefore]
         /\ hc.grounded
    ELSE /\ body.position = probe.before
         /\ ~hc.grounded

\* a body just below the ground has been put back at a last ground height
\* other than the height it had
C6_SnappedFromBelow ==
  /\ op = "detectGround"
  /\ probe.upCast
  /\ probe.up > 0
  /\ probe.before.y # probe.lastGroundBefore
  /\ body.position.y = probe.lastGroundBefore
  /\ hc.grounded

\* C7: the zoom distance is always within [MIN_ZOOM_LEVEL, MAX_ZOOM_LEVEL],
\* whatever levels ZoomController.update was called with
C7_ZoomInRange == zc.zoom \in MIN_ZOOM_LEVEL..MAX_ZOOM_LEVEL

\* an update called with three times the maximum has brought the zoom to
\* the maximum
C7_ZoomAtMaximum ==
  /\ op = "zoomUpdate"
  /\ zc.lastZoomLevel = 3 * MAX_ZOOM_LEVEL
  /\ zc.zoom = MAX_ZOOM_LEVEL

\* C8: the ZoomController.update call that is passed a level other than
\* the previous call's leaves the zoom distance as it was before the call
C8_NoJumpOnTargetChange ==
  [][ zc'.lastZoomLevel # zc.lastZoomLevel => zc'.zoom = zc.zoom ]_vars

\* the level has changed while an animation was running, which restarted
\* from a zoom distance between the two ends
C8_RestartedMidAnimation ==
  /\ obs.zoomInterrupted
  /\ zc.startZoomAnimation = clock * SCROLL_ANIMATION_SPEED
  /\ zc.isAnimating
  /\ zc.zoom = zc.startingZoom
  /\ zc.zoom > SCROLL_LEVEL_STEP
  /\ zc.zoom < MAX_ZOOM_LEVEL

\* the jump term HeightController.update adds: jumpFactor * JUMP_AMPLITUDE
\* scaled by the up-down curve at jt / JUMP_DURATION, clamped to [0, 1]
JumpTerm(jumpFactor, jt) ==
  (jumpFactor * JUMP_AMPLITUDE
     * UpDownCirc(Min(Max((jt * ONE_MILLI) \div JUMP_DURATION, 0), ONE_MILLI)))
  \div ONE_MILLI

C10_FreeFall ==
  [][ (op' = "heightUpdate" /\ ~hc.grounded) =>
        LET t == clock' - obs.groundedCallAt
        IN  /\ 2 * hc'.height = GRAVITY_Y * t * t
            /\ Abs(hc'.height) >= Abs(hc.height) ]_vars

\* the third tick of a fall that started at a grounded update, after an
\* earlier update of the same fall
C10_ThirdTickOfFall ==
  /\ op = "heightUpdate"
  /\ ~hc.grounded
  /\ obs.groundedCallAt > 0
  /\ clock - obs.groundedCallAt >= 3
  /\ hc.jumpFactor = 0
  /\ hc.height < 0
  /\ hc.movePerFrame > hc.height

-----------------------------------------------------------------------------
(* The frame loop with the player looking around *)

\* mouse movements (movementX, movementY), pixels
LookMoves == {<<-2000, -700>>, <<0, 4000>>}

\* viewport sizes the window may be resized to
RenderSizes == {RenderSizeInit, [width |-> 500, height |-> 500]}

\* the input as it may stand before the first frame: pointer locked, a mouse
\* movement pending or not
LookInputs ==
  { [InputInit EXCEPT !.pointerLocked = TRUE,
                      !.mouseXDelta = m[1], !.mouseYDelta = m[2]] :
      m \in LookMoves \cup {<<0, 0>>} }

InitLook ==
  /\ clock \in StartClocks
  /\ input \in LookInputs
  /\ body = BodyInit
  /\ hc = HeightInit
  /\ zc = ZoomInit
  /\ hb = HeadBobInit
  /\ camera = CameraInit
  /\ collider = BodyInit.position
  /\ tm = TickInit
  /\ renderSize = RenderSizeInit
  /\ engine = EngineInit
  /\ steps = <<>>
  /\ scratch = ScratchInit
  /\ probe = ProbeInit
  /\ op = "init"
  /\ obs = ObsInit
  /\ events = 0

MouseMove ==
  \E m \in LookMoves : InputEvent(onMouseMove(input, m[1], m[2]), "mousemove")

\* the window's resize listener: renderWidth, renderHeight := inner size
Resize ==
  \E size \in RenderSizes :
    /\ events < MaxEvents
    /\ events' = events + 1
    /\ renderSize' = size
    /\ op' = "resize"
    /\ UNCHANGED <<engine, clock, input, body, hc, zc, hb, camera, collider, tm, steps, scratch,
                   probe, obs>>

NextLook == Animate \/ MouseMove \/ Resize

SpecLook == InitLook /\ [][NextLook]_vars

\* C11: the pitch is always within [-HALF_PI, HALF_PI]; every frame turns
\* the yaw by the whole of -mouseXDelta / width * PHI_SPEED, whatever the
\* yaw becomes
C11_PitchClamped ==
  /\ [](body.theta \in -HALF_PI..HALF_PI)
  /\ [][ clock' # clock =>
           body'.phi = body.phi - (input.mouseXDelta * PHI_SPEED) \div renderSize.width
       ]_vars

\* the pitch stands at its upper end while the yaw has passed a full turn
C11_PitchAtEndYawPastTurn ==
  /\ op = "animate"
  /\ body.theta = HALF_PI
  /\ body.phi > TWO_PI

-----------------------------------------------------------------------------
(* HeadBobController driven directly *)

\* the frame times a caller passes to getHeadBob, ticks
BobTimeDiffs == 0..MAX_FRAME_TIME

\* getHeadBob(timeDiff, isMoving); the clock advances by the frame time
GetHeadBob ==
  \E timeDiff \in BobTimeDiffs, isMoving \in BOOLEAN :
    /\ clock + timeDiff <= MaxTime
    /\ hb' = getHeadBob(hb, timeDiff, isMoving)
    /\ obs' = [obs EXCEPT !.bobMoved = @ \/ isMoving,
                          !.bobIdle = ~isMoving /\ ~hb.headBobActive]
    /\ Call(IF isMoving THEN "getHeadBobMoving" ELSE "getHeadBobStill",
            clock + timeDiff)
    /\ UNCHANGED <<input, body, hc, zc, camera, collider, tm, renderSize, engine, steps, scratch,
                   probe, events>>

NextBob == GetHeadBob

SpecBob == Init /\ [][NextBob]_vars

\* C12: as long as no getHeadBob call was made with isMoving true, the
\* value returned (headBobAmount) is 0, the bob is inactive and its timer
\* is 0
C12_StillHeadStaysStill ==
  ~obs.bobMoved =>
    /\ hb.headBobAmount = 0
    /\ ~hb.headBobActive
    /\ hb.headBobTimer = 0

\* getHeadBob has been called with isMoving false only, for as long as the
\* clock allows
C12_CalledStill ==
  /\ op = "getHeadBobStill"
  /\ ~obs.bobMoved
  /\ clock = MaxTime
  /\ hb = HeadBobInit

-----------------------------------------------------------------------------
(* InputManager driven by keyboard and pointer-lock events alone *)

\* the keys pressed and released
QueryKeys == {"KeyW", "Space", "ShiftLeft"}

KeyPressed == \E code \in QueryKeys : KeyHandled(code, "down") /\ UNCHANGED events

KeyReleased == \E code \in QueryKeys : KeyHandled(code, "up") /\ UNCHANGED events

PointerLockChanged ==
  \E locked \in BOOLEAN :
    /\ input' = setPointerLocked(input, locked)
    /\ op' = IF locked THEN "locked" ELSE "unlocked"
    /\ UNCHANGED <<clock, body, hc, zc, hb, camera, collider, tm, renderSize, engine, steps, scratch,
                   probe, obs, events>>

NextKeys == KeyPressed \/ KeyReleased \/ PointerLockChanged

SpecKeys == Init /\ [][NextKeys]_vars

\* the any-key and all-keys queries as booleans
AnyPressed(in, keys) == runActionByOneKey(in, keys, TRUE, FALSE)
AllPressed(in, keys) == runActionByAllKeys(in, keys, TRUE, FALSE)

\* C13 as the specification states it: isKeyDown holds only with the
\* pointer locked and a key-down as the last accepted event of the key;
\* without pointer lock it is false for every key, and so are the any-key
\* and the all-keys query for every list of keys
C13_QueriesFalseUnlocked ==
  /\ \A k \in KEYS :
       isKeyDown(input, k) => input.pointerLocked /\ obs.lastKeyEvent[k] = "down"
  /\ ~input.pointerLocked =>
       /\ \A k \in KEYS : ~isKeyDown(input, k)
       /\ \A keys \in SUBSET QueryKeys :
            ~AnyPressed(input, keys) /\ ~AllPressed(input, keys)

\* C13: isKeyDown holds only with the pointer locked and a key-down as the
\* last accepted event of the key; without pointer lock it is false for
\* every key, and so are the any-key query and, for a list that is not
\* empty, the all-keys query; the all-keys query of the empty list holds
C13_QueriesFalseUnlockedNonEmpty ==
  /\ \A k \in KEYS :
       isKeyDown(input, k) => input.pointerLocked /\ obs.lastKeyEvent[k] = "down"
  /\ ~input.pointerLocked =>
       /\ \A k \in KEYS : ~isKeyDown(input, k)
       /\ \A keys \in SUBSET QueryKeys : ~AnyPressed(input, keys)
       /\ \A keys \in (SUBSET QueryKeys) \ {{}} : ~AllPressed(input, keys)
  /\ AllPressed(input, {})

\* the pointer lock was lost with two keys recorded as down
C13_UnlockedWithKeysDown ==
  /\ op = "unlocked"
  /\ ~input.pointerLocked
  /\ input.currentKeys["KeyW"] /\ input.currentKeys["ShiftLeft"]
  /\ obs.lastKeyEvent["KeyW"] = "down"
  /\ ~isKeyDown(input, "KeyW")
  /\ ~AllPressed(input, {"KeyW", "ShiftLeft"})

\* C14: with the pointer locked, a key whose key-up arrived while the
\* pointer was not locked is not reported as down
C14_NoStuckKey ==
  \A k \in KEYS :
    (input.pointerLocked /\ obs.releasedUnlocked[k]) => ~isKeyDown(input, k)

-----------------------------------------------------------------------------
(* The frame loop with the player scrolling *)

\* scroll values wheel events can have left before the first frame: none
\* yet, MIN_ZOOM_LEVEL after a scroll up, and the last value below
\* MAX_ZOOM_LEVEL, thirteen scrolls down from MIN_ZOOM_LEVEL
ScrollValues == {0, MIN_ZOOM_LEVEL, MIN_ZOOM_LEVEL + 13 * SCROLL_LEVEL_STEP}

LastStartClock == CHOOSE c \in StartClocks : \A d \in StartClocks : d <= c

InitScroll ==
  /\ clock = LastStartClock
  /\ \E v \in ScrollValues :
       input = [InputInit EXCEPT !.pointerLocked = TRUE, !.mouseWheelDelta = v]
  /\ body = BodyInit
  /\ hc = HeightInit
  /\ zc = ZoomInit
  /\ hb = HeadBobInit
  /\ camera = CameraInit
  /\ collider = BodyInit.position
  /\ tm = TickInit
  /\ renderSize = RenderSizeInit
  /\ engine = EngineInit
  /\ steps = <<>>
  /\ scratch = ScratchInit
  /\ probe = ProbeInit
  /\ op = "init"
  /\ obs = ObsInit
  /\ events = 0

NextScroll == Animate \/ MouseWheel

SpecScroll == InitScroll /\ [][NextScroll]_vars

\* C15 as the specification states it: the accumulated scroll value is
\* always within [MIN_ZOOM_LEVEL, MAX_ZOOM_LEVEL] and frames do not change it
C15_ScrollInRange ==
  /\ [](input.mouseWheelDelta \in MIN_ZOOM_LEVEL..MAX_ZOOM_LEVEL)
  /\ [][clock' # clock => input'.mouseWheelDelta = input.mouseWheelDelta]_vars

\* C15: the accumulated scroll value is 0, as constructed, or within
\* [MIN_ZOOM_LEVEL, MAX_ZOOM_LEVEL]; only a wheel event changes it, and to a
\* value within the range, so it is 0 only until the first wheel event that
\* changes it; frames do not change it
C15_ScrollInRangeOnceScrolled ==
  /\ [](input.mouseWheelDelta \in {0} \cup (MIN_ZOOM_LEVEL..MAX_ZOOM_LEVEL))
  /\ [][ input'.mouseWheelDelta # input.mouseWheelDelta =>
           /\ op' = "wheel"
           /\ clock' = clock
           /\ input'.mouseWheelDelta \in MIN_ZOOM_LEVEL..MAX_ZOOM_LEVEL ]_vars

\* a scroll down has been cut at MAX_ZOOM_LEVEL and a frame has run since
C15_ScrolledToMaximum ==
  /\ op = "animate"
  /\ events > 0
  /\ input.mouseWheelDelta = MAX_ZOOM_LEVEL
  /\ zc.lastZoomLevel = MAX_ZOOM_LEVEL
  /\ zc.startingZoom > MIN_ZOOM_LEVEL

\* C16: in a frame that starts with the grounded flag false, and in every
\* input event that arrives while it is false, the jump factor and the jump
\* start time stay as they were, whatever the space key does; so a jump
\* factor is committed from the space key only in frames where the grounded
\* flag is true at the translation step
C16_AirborneKeepsJumpFactor ==
  [][ ~hc.grounded =>
        /\ hc'.jumpFactor = hc.jumpFactor
        /\ hc'.startJumpAnimation = hc.startJumpAnimation ]_vars

\* a frame has run airborne with the space key held and no jump committed
C16_FellHoldingSpace ==
  /\ op = "animate"
  /\ hc.isAnimating
  /\ ~hc.grounded
  /\ isKeyDown(input, "Space")
  /\ hc.jumpFactor = 0
  /\ tm.timeDiff > 0

-----------------------------------------------------------------------------
(* The frame loop with the player at the jump key *)

\* the pointer is locked and the space key is down or up before the first
\* frame; key events follow between frames
JumpInputs ==
  { [InputInit EXCEPT !.pointerLocked = TRUE, !.currentKeys["Space"] = held] :
      held \in BOOLEAN }

InitJump ==
  /\ clock \in StartClocks
  /\ input \in JumpInputs
  /\ body = BodyInit
  /\ hc = HeightInit
  /\ zc = ZoomInit
  /\ hb = HeadBobInit
  /\ camera = CameraInit
  /\ collider = BodyInit.position
  /\ tm = TickInit
  /\ renderSize = RenderSizeInit
  /\ engine = EngineInit
  /\ steps = <<>>
  /\ scratch = ScratchInit
  /\ probe = ProbeInit
  /\ op = "init"
  /\ obs = ObsInit
  /\ events = 0

SpaceDown == KeyEvent("Space", "down")

SpaceUp == KeyEvent("Space", "up")

NextJump == Animate \/ SpaceDown \/ SpaceUp

SpecJump == InitJump /\ [][NextJump]_vars

\* C17 as the specification states it: the jump factor goes from nonzero to
\* 0 only in a frame that starts grounded and runs more than JUMP_DURATION
\* after the jump start time
C17_JumpFactorResetOnlyAfterWindow ==
  [][ (hc.jumpFactor # 0 /\ hc'.jumpFactor = 0) =>
        /\ clock' # clock
        /\ hc.grounded
        /\ clock' - hc.startJumpAnimation > JUMP_DURATION ]_vars

\* C17: the jump factor goes from nonzero to 0 only in a frame that starts
\* grounded, and in such a frame only if more than JUMP_DURATION has elapsed
\* since the jump start time or the space key is not held; no input event and
\* no frame that starts in the air resets it
C17_JumpFactorResetOnlyGrounded ==
  [][ (hc.jumpFactor # 0 /\ hc'.jumpFactor = 0) =>
        /\ clock' # clock
        /\ hc.grounded
        /\ \/ clock' - hc.startJumpAnimation > JUMP_DURATION
           \/ ~isKeyDown(input, "Space") ]_vars

\* the frame after the one that committed a jump at rest has run with the
\* space key released, inside the window and with no reset of the jump start
\* time in either frame, and has left the jump factor 0
C17_ReleasedInsideWindow ==
  /\ op = "animate"
  /\ obs.jumping
  /\ clock = obs.jumpStart + 1
  /\ hc.startJumpAnimation < obs.jumpStart
  /\ clock - hc.startJumpAnimation <= JUMP_DURATION
  /\ obs.lastKeyEvent["Space"] = "up"
  /\ hc.jumpFactor = 0

\* the progress of the zoom animation in the ZoomController.update call that
\* takes zc to zc', in twentieths, or -1 if no animation runs in the call
ZoomProgress ==
  LET time == clock' * SCROLL_ANIMATION_SPEED
      changed == zc'.lastZoomLevel # zc.lastZoomLevel
  IN  IF op' \notin {"zoomUpdate", "updateZoom"} THEN -1
      ELSE IF changed THEN 0
      ELSE IF zc.isAnimating THEN time - zc.startZoomAnimation
      ELSE -1

\* C18: the ZoomController.update call in which the progress of the
\* animation reaches 1 or more marks the animation complete and leaves the
\* zoom equal to the clamped target; a later call with the same target
\* leaves the zoom as it is
C18_CompleteAtTarget ==
  /\ [][ ZoomProgress >= 20 =>
           /\ ~zc'.isAnimating
           /\ zc'.zoom = clamp(zc'.lastZoomLevel, MIN_ZOOM_LEVEL, MAX_ZOOM_LEVEL) ]_vars
  /\ [][ (op' \in {"zoomUpdate", "updateZoom"} /\ ~zc.isAnimating
            /\ zc'.lastZoomLevel = zc.lastZoomLevel) => zc'.zoom = zc.zoom ]_vars

\* the phase modulo pi a getHeadBob call computes from the timer it finds
HeadBobPhase(h) == (h.headBobTimer * HEAD_BOB_RATE) % PI

\* C19: a getHeadBob call that finds the bob active leaves it inactive
\* exactly if the phase modulo pi it computes is smaller than the one the
\* previous active call computed, whether isMoving is true or not; a call
\* with isMoving true that finds the bob inactive, as the call after that one
\* does, leaves it active
C19_HalfCycleStopsThenRestarts ==
  /\ [][ (op' \in {"getHeadBobMoving", "getHeadBobStill"} /\ hb.headBobActive) =>
           (hb'.headBobActive <=> ~(HeadBobPhase(hb) < hb.lastHeadBobDiff)) ]_vars
  /\ [][ (op' = "getHeadBobMoving" /\ ~hb.headBobActive) => hb'.headBobActive ]_vars

\* the timer has passed half a cycle plus a full frame, so the call just
\* made, with isMoving true, computed a phase past pi: the bob has been
\* stopped at the half cycle and is active again
C19_ActivePastHalfCycle ==
  /\ op = "getHeadBobMoving"
  /\ hb.headBobActive
  /\ hb.headBobTimer * HEAD_BOB_RATE >= PI + MAX_FRAME_TIME * HEAD_BOB_RATE
  /\ hb.lastHeadBobDiff < MAX_FRAME_TIME * HEAD_BOB_RATE

\* C20: when the downward ray hits at a positive distance below the foot,
\* detection leaves the body not grounded, the last ground height equal to
\* the height of the hit plus half the avatar's height, and the body where
\* it was
C20_HitBelowFoot ==
  (op = "detectGround" /\ probe.down # NoHit /\ probe.down > 0) =>
    /\ ~hc.grounded
    /\ hc.lastGroundHeight = (probe.originY - probe.down) + AVATAR_HEIGHT \div 2
    /\ body.position = probe.before

\* detection has run with the ground at the far end of the downward ray and
\* another last ground height recorded before
C20_HitAtRayEnd ==
  /\ op = "detectGround"
  /\ probe.down = RAY_LENGTH
  /\ probe.lastGroundBefore = SPAWN_Y
  /\ hc.lastGroundHeight = GROUND_HALF_THICKNESS + AVATAR_HEIGHT \div 2
  /\ ~hc.grounded

-----------------------------------------------------------------------------
(* The frame loop with rays that miss *)

\* the first-person camera ray may also hit nothing
ForwardOutcomes == ForwardHits \cup {NoHit}

\* the body over the ground or beside it, where both ground rays miss, at
\* the spawn height or at standing height
InitMiss ==
  /\ clock \in StartClocks
  /\ input = InputInit
  /\ \E x \in {0, GROUND_HALF_EXTENT + AVATAR_WIDTH},
        y \in {SPAWN_Y, GROUND_HALF_THICKNESS + AVATAR_HEIGHT \div 2} :
       body = [BodyInit EXCEPT !.position = Vec(x, y, 0),
                               !.avatarPosition = Vec(x, y, 0)]
  /\ hc = HeightInit
  /\ zc = ZoomInit
  /\ hb = HeadBobInit
  /\ camera = CameraInit
  /\ collider = body.position
  /\ tm = TickInit
  /\ renderSize = RenderSizeInit
  /\ engine = EngineInit
  /\ steps = <<>>
  /\ scratch = ScratchInit
  /\ probe = ProbeInit
  /\ op = "init"
  /\ obs = ObsInit
  /\ events = 0

AnimateAnyHit ==
  \E timestamp \in NextTimestamps, fwd \in ForwardOutcomes :
    LET r == animate(World, tm, timestamp, fwd)
    IN  /\ engine.loop = "registered"
        /\ engine.physics
        /\ SetWorld(r.w)
        /\ tm' = r.tm
        /\ clock' = timestamp
        /\ op' = "animate"
        /\ obs' = ObserveFrame(obs, World, timestamp)
        /\ UNCHANGED <<renderSize, engine, events>>

NextMiss == AnimateAnyHit

SpecMiss == InitMiss /\ [][NextMiss]_vars

\* the downward ray of the last frame missed
DownMissed == probe.down = NoHit

\* both ground rays of the last frame missed
GroundMissed == probe.upCast /\ probe.up = NoHit

\* the first-person forward ray of the last frame was cast and missed
ForwardMissed == isFirstPerson(zc) /\ camera.lookAt = "body"

\* C21: a frame in which the downward ray, the upward ray or the forward
\* camera ray hits nothing runs all seven steps of update(), none of them
\* failing; when both ground rays miss, the frame leaves the body not
\* grounded
C21_MissedRaysAreNoError ==
  (op = "animate" /\ (DownMissed \/ GroundMissed \/ ForwardMissed)) =>
    /\ steps = UpdateOrder
    /\ GroundMissed => ~hc.grounded

\* a frame has run beside the ground with all three rays missing
C21_AllRaysMissed ==
  /\ op = "animate"
  /\ GroundMissed
  /\ ForwardMissed
  /\ ~hc.grounded
  /\ tm.timeDiff > 0

-----------------------------------------------------------------------------
(* The frame loop with mouse movements, keys held and a scroll value *)

\* the input as a player may have left it before the first frame: pointer
\* locked, sprinting forward or no key down, scrolled out one step or not,
\* a mouse movement pending or not
ResetInputs ==
  { [InputInit EXCEPT !.pointerLocked = TRUE,
                      !.currentKeys = [k \in KEYS |-> k \in held],
                      !.mouseWheelDelta = wheel,
                      !.mouseXDelta = m[1], !.mouseYDelta = m[2]] :
      held \in {{}, {"KeyW", "ShiftLeft"}},
      wheel \in {0, SCROLL_LEVEL_STEP},
      m \in LookMoves \cup {<<0, 0>>} }

InitReset ==
  /\ clock = LastStartClock
  /\ input \in ResetInputs
  /\ body = BodyInit
  /\ hc = HeightInit
  /\ zc = ZoomInit
  /\ hb = HeadBobInit
  /\ camera = CameraInit
  /\ collider = BodyInit.position
  /\ tm = TickInit
  /\ renderSize = RenderSizeInit
  /\ engine = EngineInit
  /\ steps = <<>>
  /\ scratch = ScratchInit
  /\ probe = ProbeInit
  /\ op = "init"
  /\ obs = ObsInit
  /\ events = 0

NextReset == Animate \/ MouseMove

SpecReset == InitReset /\ [][NextReset]_vars

\* C22: every frame leaves both mouse deltas 0 and the rest of the input
\* state (scroll value, key states, buttons, pointer lock) as it was; a frame
\* that follows a frame with no event in between turns neither yaw nor
\* pitch, so the delta of a mouse movement turns the body in one frame at
\* most
C22_DeltasZeroAfterUpdate ==
  /\ [](op = "animate" => (input.mouseXDelta = 0 /\ input.mouseYDelta = 0))
  /\ [][ clock' # clock =>
           input' = [input EXCEPT !.mouseXDelta = 0, !.mouseYDelta = 0] ]_vars
  /\ [][ (clock' # clock /\ op = "animate") =>
           (body'.phi = body.phi /\ body'.theta = body.theta) ]_vars

\* frames have run after mouse movements that turned yaw and pitch, with
\* keys held and the scroll value one step out
C22_TurnedAndReset ==
  /\ op = "animate"
  /\ events = MaxEvents
  /\ body.phi # 0
  /\ body.theta # 0
  /\ isKeyDown(input, "KeyW")
  /\ input.mouseWheelDelta = SCROLL_LEVEL_STEP
  /\ input.mouseXDelta = 0
  /\ input.mouseYDelta = 0

\* the places of a step in the order of the last frame
StepPlaces(name) == { i \in DOMAIN tm.order : tm.order[i].step = name }

\* every occurrence of step a in the last frame came before every
\* occurrence of step b
StepBefore(a, b) == \A i \in StepPlaces(a), j \in StepPlaces(b) : i < j

\* the last frame stepped the physics world, updated the character, rendered
\* and dispatched the tick event once each
FrameComplete ==
  \A name \in {"physicsStep", "controlsUpdate", "render", "tick"} :
    Cardinality(StepPlaces(name)) = 1

\* C23 as the specification states it: in every frame the physics step
\* comes before every read of a physics object's transform, the character
\* update before rendering, and rendering after all logic updates, the
\* tick-listener callbacks included
C23_RenderAfterAllLogic ==
  op = "animate" =>
    /\ FrameComplete
    /\ StepBefore("physicsStep", "sync")
    /\ StepBefore("physicsStep", "callback")
    /\ StepBefore("controlsUpdate", "render")
    /\ \A name \in {"physicsStep", "sync", "callback", "controlsUpdate", "tick"} :
         StepBefore(name, "render")

\* C23: in every frame the physics step comes before every read of a
\* physics object's transform; the character update comes before rendering,
\* which draws with the camera that update left; rendering comes after the
\* physics step, the physics-object sync and callbacks and the character
\* update, and before the tick event is dispatched to its listeners
C23_RenderAfterUpdateBeforeTick ==
  op = "animate" =>
    /\ FrameComplete
    /\ StepBefore("physicsStep", "sync")
    /\ StepBefore("physicsStep", "callback")
    /\ StepBefore("controlsUpdate", "render")
    /\ tm.rendered = camera
    /\ \A name \in {"physicsStep", "sync", "callback", "controlsUpdate"} :
         StepBefore(name, "render")
    /\ StepBefore("render", "tick")

\* a frame has synchronised the ground and every cube, run the ground's
\* callback, moved the camera and rendered with it
C23_FrameWithSyncAndRender ==
  /\ op = "animate"
  /\ Cardinality(StepPlaces("sync")) = NUM_CUBES + 1
  /\ Cardinality(StepPlaces("callback")) = 1
  /\ tm.rendered = camera
  /\ camera.lookAt = "hit"
  /\ events > 0

-----------------------------------------------------------------------------
(* The engine module: startLoop and addPhysics *)

\* startLoop(): throws if there is no renderer, otherwise hands animate to
\* renderer.setAnimationLoop; the other hooks are read and not tested
startLoop(e) ==
  IF ~e.renderer
  THEN [e EXCEPT !.failure = "startLoop"]
  ELSE [e EXCEPT !.loop = "registered"]

\* what RAPIER.ColliderDesc hands back for the requested shape: a
\* description or nothing
ColliderDescs == {"built", "missing"}

\* what physics.createCollider does when handed no description: the library
\* is not part of the repository
CreateColliderOutcomes == {"throws", "returns"}

\* addPhysics(mesh, rigidBodyType, autoAnimate, postPhysicsFn, colliderType,
\* colliderSettings): desc is the collider description obtained, lib what
\* createCollider does without one
addPhysics(e, mesh, autoAnimate, fn, desc, lib) ==
  IF ~e.physics
  THEN [e EXCEPT !.failure = "addPhysics",
                 !.lastAdd = [desc |-> desc, returned |-> FALSE]]
  ELSE LET e1 == IF desc = "missing" THEN [e EXCEPT !.diagnostics = @ + 1] ELSE e
       IN  IF desc = "missing" /\ lib = "throws"
           THEN [e1 EXCEPT !.failure = "addPhysics",
                           !.lastAdd = [desc |-> desc, returned |-> FALSE]]
           ELSE [e1 EXCEPT !.physicsObjects =
                             Append(@, PhysicsObject(mesh, autoAnimate, fn)),
                           !.lastAdd = [desc |-> desc, returned |-> TRUE]]

\* the engine when startLoop is called: renderer and physics world created
\* or not; with a physics world, the scene is registered
EnginesAtStart ==
  { [EngineInit EXCEPT !.renderer = r, !.physics = p, !.loop = "none",
                       !.physicsObjects = IF p THEN SceneObjects ELSE <<>>] :
      r \in BOOLEAN, p \in BOOLEAN }

InitEngine ==
  /\ clock \in StartClocks
  /\ input = InputInit
  /\ body = BodyInit
  /\ hc = HeightInit
  /\ zc = ZoomInit
  /\ hb = HeadBobInit
  /\ camera = CameraInit
  /\ collider = BodyInit.position
  /\ tm = TickInit
  /\ renderSize = RenderSizeInit
  /\ engine \in EnginesAtStart
  /\ steps = <<>>
  /\ scratch = ScratchInit
  /\ probe = ProbeInit
  /\ op = "init"
  /\ obs = ObsInit
  /\ events = 0

StartLoop ==
  /\ engine.loop = "none"
  /\ engine.failure # "startLoop"
  /\ engine' = startLoop(engine)
  /\ op' = "startLoop"
  /\ UNCHANGED <<clock, input, body, hc, zc, hb, camera, collider, tm, renderSize,
                 steps, scratch, probe, obs, events>>

AddPhysics ==
  \E autoAnimate \in BOOLEAN, desc \in ColliderDescs, lib \in CreateColliderOutcomes :
    /\ events < MaxEvents
    /\ events' = events + 1
    /\ engine' = addPhysics(engine, "cube", autoAnimate, FALSE, desc, lib)
    /\ op' = "addPhysics"
    /\ UNCHANGED <<clock, input, body, hc, zc, hb, camera, collider, tm, renderSize,
                   steps, scratch, probe, obs>>

\* the animation callback without a physics world: timestamp and timeDiff
\* are assigned, then physics.step() is a TypeError
AnimateFails ==
  \E timestamp \in NextTimestamps :
    /\ engine.loop = "registered"
    /\ ~engine.physics
    /\ tm' = [tm EXCEPT !.timestamp = timestamp,
                        !.timeDiff = timestamp - tm.lastTimestamp]
    /\ engine' = [engine EXCEPT !.failure = "animate"]
    /\ clock' = timestamp
    /\ op' = "animateFailed"
    /\ UNCHANGED <<input, body, hc, zc, hb, camera, collider, renderSize, steps, scratch,
                   probe, obs, events>>

NextEngine == StartLoop \/ AddPhysics \/ Animate \/ AnimateFails

SpecEngine == InitEngine /\ [][NextEngine]_vars

C25_NoColliderNoObject ==
  [][ (op' = "addPhysics" /\ engine.physics /\ engine'.lastAdd.desc = "missing") =>
        /\ engine'.diagnostics = engine.diagnostics + 1
        /\ ~engine'.lastAdd.returned
        /\ engine'.physicsObjects = engine.physicsObjects ]_vars

-----------------------------------------------------------------------------
(* The frame loop with any of the movement keys held *)

MoveKeys == {"KeyW", "KeyS", "KeyA", "KeyD", "ShiftLeft", "ShiftRight"}

\* the input as a player may have left it before the first frame: pointer
\* lock on or off and any set of movement keys recorded as down
MoveInputs ==
  { [InputInit EXCEPT !.pointerLocked = locked,
                      !.currentKeys = [k \in KEYS |-> k \in held]] :
      locked \in BOOLEAN, held \in SUBSET MoveKeys }

InitMove ==
  /\ clock = LastStartClock
  /\ input \in MoveInputs
  /\ body = BodyInit
  /\ hc = HeightInit
  /\ zc = ZoomInit
  /\ hb = HeadBobInit
  /\ camera = CameraInit
  /\ collider = BodyInit.position
  /\ tm = TickInit
  /\ renderSize = RenderSizeInit
  /\ engine = EngineInit
  /\ steps = <<>>
  /\ scratch = ScratchInit
  /\ probe = ProbeInit
  /\ op = "init"
  /\ obs = ObsInit
  /\ events = 0

NextMove == Animate

SpecMove == InitMove /\ [][NextMove]_vars

\* 1 if the key reads as down, 0 otherwise
KeyValue(k) == IF isKeyDown(input, k) THEN 1 ELSE 0

\* 5 with a shift key down, 1 otherwise
SprintFactor ==
  IF isKeyDown(input, "ShiftLeft") \/ isKeyDown(input, "ShiftRight") THEN SPRINT ELSE 1

\* C26: the forward axis of the translation step is m * (W - S) and the
\* side axis m * (A - D), m being 5 with a shift key down and 1 otherwise;
\* each axis is one of -5, -1, 0, 1, 5 and is 0 when neither or both of its
\* keys are down; after a frame the moving flag is true exactly when an axis
\* is not 0
C26_AxisValues ==
  LET fv == forwardVelocity(input)
      sv == sideVelocity(input)
  IN  /\ fv = SprintFactor * (KeyValue("KeyW") - KeyValue("KeyS"))
      /\ sv = SprintFactor * (KeyValue("KeyA") - KeyValue("KeyD"))
      /\ {fv, sv} \subseteq {-SPRINT, -1, 0, 1, SPRINT}
      /\ KeyValue("KeyW") = KeyValue("KeyS") => fv = 0
      /\ KeyValue("KeyA") = KeyValue("KeyD") => sv = 0
      /\ op = "animate" => (body.isMoving2D <=> (fv # 0 \/ sv # 0))

\* frames have run with W and S both down, D down and the right shift key
\* down: the forward axis is 0, the side axis -5, and the body has moved
C26_SprintedSideways ==
  /\ op = "animate"
  /\ \A k \in {"KeyW", "KeyS", "KeyD", "ShiftRight"} : isKeyDown(input, k)
  /\ ~isKeyDown(input, "KeyA")
  /\ ~isKeyDown(input, "ShiftLeft")
  /\ sideVelocity(input) = -SPRINT
  /\ body.isMoving2D
  /\ body.position.x # BodyInit.position.x \/ body.position.z # BodyInit.position.z

DetectedGrounded ==
  IF probe.down # NoHit THEN probe.down <= 0 ELSE probe.up # NoHit

\* C28: the grounded value the vertical-motion update of a frame reads
\* (it stores its negation in isAnimating) is the value the flag had when
\* the frame began: false before the first frame, and afterwards the value
\* ground detection wrote in the frame before; between two frames no
\* event changes the flag, and after a frame the flag is what that
\* frame's ground detection concluded.
C28_GroundedLagsOneFrame ==
  /\ [](op = "init" => ~hc.grounded)
  /\ [](op = "animate" => hc.grounded = DetectedGrounded)
  /\ [][ clock' # clock => hc'.isAnimating = ~hc.grounded ]_vars
  /\ [][ clock' = clock => hc'.grounded = hc.grounded ]_vars

\* C28 witness: a frame whose ground detection set the flag while its
\* vertical-motion update, run before, still saw the body in the air
C28_LandedThisFrame ==
  /\ op = "animate"
  /\ hc.grounded
  /\ hc.isAnimating

\* ---------------------------------------------------------------------
\* C29: the character body belongs to the update pipeline
\* ---------------------------------------------------------------------

\* the frame has taken the named step on the named object
StepTaken(name, on) ==
  \E i \in DOMAIN tm.order : tm.order[i] = FrameStep(name, on)

\* C29: the position and the orientation of the character body are
\* written by the update pipeline only.  The loop over the physics objects
\* takes no step on the character (it is registered with autoAnimate false
\* and without a callback), no event handler changes the body, and a frame
\* works on the body it found, whatever the collider's translation was:
\* the orientation it leaves is the rotation step's, the position its
\* ground detection finds is the translation step's, and the position it
\* leaves is that position, or that position lifted to the last ground
\* height.
C29_BodyOwnedByPipeline ==
  /\ [](\A i \in DOMAIN tm.order :
          tm.order[i].on = "character" => tm.order[i].step = "controlsUpdate")
  /\ [][ clock' = clock => body' = body ]_vars
  /\ [][ clock' # clock =>
           LET w1 == updateRotation(World)
               w2 == updateTranslation(w1, timeDiffCapped(clock' - tm.lastTimestamp))
           IN  /\ body'.phi = w1.body.phi
               /\ body'.theta = w1.body.theta
               /\ probe'.before = w2.body.position
               /\ body'.position \in
                    { probe'.before,
                      [probe'.before EXCEPT !.y = probe'.lastGroundBefore] } ]_vars

\* C29 witness: a frame whose loop synchronised the ground mesh and whose
\* ground detection lifted the body, so that the collider's translation and
\* the body's position differ when the next frame's loop runs
C29_ColliderBehindBody ==
  /\ op = "animate"
  /\ StepTaken("sync", "ground")
  /\ collider # body.position

\* ---------------------------------------------------------------------
\* The frame loop with the zoom wheel and rays that hit or miss
\* ---------------------------------------------------------------------

\* a page whose first animation frame comes later
LateStartClock == LastStartClock + 3 * MAX_FRAME_TIME

\* the pointer locked, the body at standing height, over the ground or
\* beside it
InitScratch ==
  /\ clock = LateStartClock
  /\ input = setPointerLocked(InputInit, TRUE)
  /\ \E x \in {0, GROUND_HALF_EXTENT + AVATAR_WIDTH} :
       LET y == GROUND_HALF_THICKNESS + AVATAR_HEIGHT \div 2
       IN  body = [BodyInit EXCEPT !.position = Vec(x, y, 0),
                                   !.avatarPosition = Vec(x, y, 0)]
  /\ hc = HeightInit
  /\ zc = ZoomInit
  /\ hb = HeadBobInit
  /\ camera = CameraInit
  /\ collider = body.position
  /\ tm = TickInit
  /\ renderSize = RenderSizeInit
  /\ engine = EngineInit
  /\ steps = <<>>
  /\ scratch = ScratchInit
  /\ probe = ProbeInit
  /\ op = "init"
  /\ obs = ObsInit
  /\ events = 0

\* the wheel turned one notch, either way
WheelNotch ==
  \E deltaY \in {-1, 1} : InputEvent(onMouseWheel(input, deltaY), "wheel")

NextScratch == AnimateAnyHit \/ WheelNotch

SpecScratch == InitScratch /\ [][NextScratch]_vars

\* the read found what its reader meant to read: written by the reader's
\* own step in the frame now running, or one of the constants
FreshRead(r) ==
  /\ r.got.what = r.wants
  /\ ~r.got.old
  /\ r.got.by \in {r.by, "constant"}

\* the frame made the named read of the ray
RayRead(reader) ==
  \E i \in DOMAIN scratch.reads : scratch.reads[i].reader = reader

\* C30: in every frame, every read of a reusable vector or quaternion,
\* made directly or through the origin and direction references of the
\* shared ray, finds what the reading step wrote for it in that frame: the
\* downward ground ray, the upward ground ray and the first-person forward
\* ray each read the origin and the direction set for that cast, and
\* nothing left by another step or by an earlier frame is read.  Every
\* frame casts the downward ray, casts the upward ray exactly when the
\* downward ray missed, and casts the forward ray exactly in first person.
C30_NoStaleScratchRead ==
  /\ \A i \in DOMAIN scratch.reads : FreshRead(scratch.reads[i])
  /\ op = "animate" =>
       /\ RayRead("castRay:down")
       /\ RayRead("castRay:up") <=> probe.upCast
       /\ RayRead("castRay:forward") <=> isFirstPerson(zc)

\* C30 witness: a frame, not the first of the run, that cast the upward
\* ray after a downward miss and the forward ray, and whose forward hit
\* left the hit point in vec3_0 while the ray's direction still refers to
\* vec3_0
C30_RayLeftAliasingHitPoint ==
  /\ op = "animate"
  /\ clock > LateStartClock + MAX_FRAME_TIME
  /\ RayRead("castRay:up")
  /\ RayRead("castRay:forward")
  /\ scratch.ray_0.dir = "vec3_0"
  /\ scratch.vec3_0.what = "hitPoint"

\* ---------------------------------------------------------------------
\* C31: the distance of the third-person camera
\* ---------------------------------------------------------------------

\* a length in hundredths of a scene unit
InHundredths(len) == len \div Hundredth

\* the square of the distance between the camera and the body, in
\* hundredths of a scene unit
CameraDistanceSquared ==
  LET dx == InHundredths(camera.position.x - body.position.x)
      dy == InHundredths(camera.position.y - body.position.y)
      dz == InHundredths(camera.position.z - body.position.z)
  IN  dx * dx + dy * dy + dz * dz

\* the current zoom distance in hundredths of a scene unit
ZoomDistance == InHundredths(zc.zoom * ZOOM_TO_LENGTH)

\* C31: after a frame in third person the camera is at the zoom distance
\* from the body, whatever the yaw and the pitch: the squares agree up to
\* the rounding of the three components (one hundredth each, and as much
\* again for the sine and cosine).
C31_CameraAtZoomDistance ==
  (op = "animate" /\ ~isFirstPerson(zc)) =>
    Abs(CameraDistanceSquared - ZoomDistance * ZoomDistance)
      <= 12 * ZoomDistance + 12

\* ---------------------------------------------------------------------
\* C32: the head bob belongs to first person
\* ---------------------------------------------------------------------

\* C32: a frame queries the head bob, and adds its offset to the camera's
\* height, exactly when the zoom it has reached is at most the avatar
\* width.  In such a frame the head bob state is what getHeadBob makes of
\* it with the frame's time step and the body's moving flag, and the
\* camera's height is the body's plus the zoom offset plus the bob; in
\* every other frame the head bob state (timer, active flag, last phase,
\* last offset) is left as it was and the camera's height is the body's
\* plus the zoom offset.
C32_HeadBobOnlyInFirstPerson ==
  [][ clock' # clock =>
        LET timeDiff == timeDiffCapped(clock' - tm.lastTimestamp)
            zoomY == cameraOffset(body', zc').y
        IN  IF isFirstPerson(zc')
            THEN /\ hb' = getHeadBob(hb, timeDiff, body'.isMoving2D)
                 /\ camera'.position.y = body'.position.y + zoomY + hb'.headBobAmount
            ELSE /\ hb' = hb
                 /\ camera'.position.y = body'.position.y + zoomY ]_vars

\* C32 witness: a frame in third person of a moving body whose head bob had
\* been running and is still marked active
C32_ThirdPersonWhileBobbing ==
  /\ op = "animate"
  /\ ~isFirstPerson(zc)
  /\ body.isMoving2D
  /\ hb.headBobActive
  /\ hb.headBobTimer > 0

\* ---------------------------------------------------------------------
\* The frame loop with timestamps that repeat, go back or leap
\* ---------------------------------------------------------------------

\* timestamps the host may hand out beside the regular ones: the last one
\* again, an earlier one, one far ahead
IrregularTimestamps ==
  {clock - 3, clock, clock + 2 * MAX_FRAME_TIME + 1} \cap (0..MaxTime)

InitTime ==
  /\ clock = LastStartClock
  /\ ControllerInit

\* a frame at a regular or an irregular timestamp; the irregular ones are
\* counted
AnimateIrregular ==
  \E timestamp \in NextTimestamps \cup IrregularTimestamps, fwd \in ForwardHits :
    LET r == animate(World, tm, timestamp, fwd)
    IN  /\ engine.loop = "registered"
        /\ engine.physics
        /\ timestamp \notin NextTimestamps => events < MaxEvents
        /\ events' = IF timestamp \in NextTimestamps THEN events ELSE events + 1
        /\ SetWorld(r.w)
        /\ tm' = r.tm
        /\ clock' = timestamp
        /\ op' = "animate"
        /\ obs' = ObserveFrame(obs, World, timestamp)
        /\ UNCHANGED <<renderSize, engine>>

NextTime == AnimateIrregular

SpecTime == InitTime /\ [][NextTime]_vars

\* C33: whatever timestamps the frames come with (the first frame, the same
\* timestamp again, an earlier one, a gap of any length), the time step
\* handed to the character update is between 0 and 0.1 s: 0 when the
\* timestamp is not later than the last one, 0.1 s when it is later by that
\* much or more, and the difference otherwise; the timestamp handed to it
\* is the frame's own, uncapped.
C33_TimeStepCapped ==
  [][ op' = "animate" =>
        LET diff == clock' - tm.lastTimestamp
        IN  /\ tm'.passed.timestamp = clock'
            /\ tm'.passed.timeDiff \in 0..MAX_FRAME_TIME
            /\ diff <= 0 => tm'.passed.timeDiff = 0
            /\ diff >= MAX_FRAME_TIME => tm'.passed.timeDiff = MAX_FRAME_TIME
            /\ diff \in 0..MAX_FRAME_TIME => tm'.passed.timeDiff = diff ]_vars

\* C33 witness: the second irregular frame of a run, with a timestamp
\* earlier than the last frame's
C33_WentBackInTime ==
  /\ op = "animate"
  /\ tm.timeDiff < 0
  /\ tm.passed.timeDiff = 0
  /\ events = MaxEvents

\* ---------------------------------------------------------------------
\* C34: holding space makes the body jump
\* ---------------------------------------------------------------------

\* the pointer locked and space held from before the first frame
InitHold ==
  /\ clock \in StartClocks
  /\ input = [InputInit EXCEPT !.pointerLocked = TRUE, !.currentKeys["Space"] = TRUE]
  /\ body = BodyInit
  /\ hc = HeightInit
  /\ zc = ZoomInit
  /\ hb = HeadBobInit
  /\ camera = CameraInit
  /\ collider = BodyInit.position
  /\ tm = TickInit
  /\ renderSize = RenderSizeInit
  /\ engine = EngineInit
  /\ steps = <<>>
  /\ scratch = ScratchInit
  /\ probe = ProbeInit
  /\ op = "init"
  /\ obs = ObsInit
  /\ events = 0

NextHold == Animate \/ SpaceDown \/ SpaceUp

\* a step that is a frame: the only steps that move the clock to a later
\* timestamp are those of Animate
FrameRuns == \E timestamp \in NextTimestamps : clock' = timestamp

\* the host keeps calling the animation callback
SpecHold == InitHold /\ [][NextHold]_vars /\ WF_clock(FrameRuns)

\* the height of the body standing on the ground
StandingHeight == GROUND_HALF_THICKNESS + AVATAR_HEIGHT \div 2

\* the body stands grounded on the ground with space held under pointer
\* lock, and the run has time for three more frames
HoldingSpaceGrounded ==
  /\ hc.grounded
  /\ body.position.y = StandingHeight
  /\ isKeyDown(input, "Space")
  /\ clock <= MaxTime - 3 * MAX_FRAME_TIME

C35_LastMouseMoveCounts ==
  /\ [][ op' = "mousemove" =>
           \E m \in LookMoves :
             /\ input'.mouseXDelta = m[1]
             /\ input'.mouseYDelta = m[2] ]_vars
  /\ [][ clock' # clock =>
           /\ body'.phi = body.phi
                - (input.mouseXDelta * PHI_SPEED) \div renderSize.width
           /\ body'.theta =
                clamp(body.theta
                        - (input.mouseYDelta * THETA_SPEED) \div renderSize.height,
                      -HALF_PI, HALF_PI) ]_vars

\* C35 witness: the first frame of a run has turned the body, after two
\* mouse-move events had been delivered before it
C35_TwoMovesThenFrame ==
  /\ op = "animate"
  /\ events = MaxEvents
  /\ clock = LastStartClock + 1
  /\ body.phi # 0

\* ---------------------------------------------------------------------
\* C36: the first fall is timed from time 0
\* ---------------------------------------------------------------------

\* no frame has run yet
BeforeFirstFrame == tm.order = <<>>

\* C36: the first vertical-motion update after construction (grounded
\* false, fall start time 0) takes the frame's absolute timestamp as the
\* elapsed fall time: the vertical delta it computes is 0.5 * g *
\* timestamp^2, whatever time step the frame was given and however late
\* after time 0 the controller was built and the loop started.
C36_FirstFallFromTimeZero ==
  /\ [](BeforeFirstFrame => (~hc.grounded /\ hc.startFallAnimation = 0))
  /\ [][ (BeforeFirstFrame /\ op' = "animate") =>
           /\ hc'.height = (GRAVITY_Y * clock' * clock') \div 2
           /\ hc'.movePerFrame = hc'.height ]_vars

\* C36 witness: the first frame ran with the time step at its cap, 0.1 s,
\* and computed the delta of a fall as long as its timestamp
C36_FirstFrameFellFromZero ==
  /\ op = "animate"
  /\ tm.timeDiff = tm.timestamp
  /\ tm.passed.timeDiff = MAX_FRAME_TIME
  /\ tm.timestamp > 10 * MAX_FRAME_TIME
  /\ hc.movePerFrame = (GRAVITY_Y * tm.timestamp * tm.timestamp) \div 2

\* ---------------------------------------------------------------------
\* C37: the deltas of a fall add up to the fall
\* ---------------------------------------------------------------------

\* 0.5 * g * t^2
FallOver(t) == (GRAVITY_Y * t * t) \div 2

\* C37: a frame whose vertical-motion update finds the body grounded
\* starts the account again: height 0 and the fall timed from that frame.
\* Every later frame that finds the body in the air with jump factor 0
\* computes as its delta the difference between the fall over the time
\* elapsed since that grounded frame and the height reached by the frame
\* before, and that fall becomes the height reached: over a run of such
\* frames the deltas add up to 0.5 * g * t^2 for the time t elapsed since
\* the grounded frame, however the time is divided into frames.
C37_FallDeltasAddUp ==
  /\ [][ (clock' # clock /\ hc.grounded) =>
           /\ hc'.height = 0
           /\ hc'.lastHeight = 0
           /\ hc'.startFallAnimation = clock' ]_vars
  /\ [][ (clock' # clock /\ ~hc.grounded /\ hc'.jumpFactor = 0) =>
           /\ hc'.startFallAnimation = hc.startFallAnimation
           /\ hc'.height = FallOver(clock' - hc.startFallAnimation)
           /\ hc'.movePerFrame = hc'.height - hc.height
           /\ hc'.lastHeight = hc'.height ]_vars
  /\ [](hc.lastHeight = hc.height)

\* C37 witness: the body is falling with jump factor 0, at least two
\* frames after the last frame that found it grounded
C37_FellOverSeveralFrames ==
  /\ op = "animate"
  /\ obs.groundedCallAt > 0
  /\ hc.startFallAnimation = obs.groundedCallAt
  /\ hc.isAnimating
  /\ hc.jumpFactor = 0
  /\ hc.height = FallOver(clock - obs.groundedCallAt)
  /\ hc.movePerFrame # 0
  /\ hc.movePerFrame # hc.height

\* ---------------------------------------------------------------------
\* C38: the collider follows the body
\* ---------------------------------------------------------------------

\* C38: at the end of every frame the translation registered for the
\* kinematic collider is the body's position, also in a frame whose ground
\* detection lifts the body to the last ground height.
C38_ColliderAtBody ==
  op = "animate" => collider = body.position

\* ---------------------------------------------------------------------
\* C39: the idle head bob
\* ---------------------------------------------------------------------

\* getHeadBob has just been called
HeadBobCalled == op' \in {"getHeadBobMoving", "getHeadBobStill"}

\* C39: a getHeadBob call with isMoving false that finds the bob inactive
\* changes nothing: it returns the offset left by the last call that ran
\* the bob, and the timer neither advances nor starts again.  No call ever
\* sets the timer back, and the offset changes only in calls that run the
\* bob; a call with isMoving true that finds the bob inactive takes the
\* sine at the phase the timer has accumulated and advances the timer by
\* its time step.
C39_IdleBobKeepsOffsetAndTimer ==
  /\ [][ (op' = "getHeadBobStill" /\ ~hb.headBobActive) => hb' = hb ]_vars
  /\ [][ hb'.headBobTimer >= hb.headBobTimer ]_vars
  /\ [][ hb'.headBobAmount # hb.headBobAmount =>
           (HeadBobCalled /\ (hb.headBobActive \/ op' = "getHeadBobMoving")) ]_vars
  /\ [][ (op' = "getHeadBobMoving" /\ ~hb.headBobActive) =>
           /\ hb'.headBobAmount =
                (Sin(hb.headBobTimer * HEAD_BOB_RATE) * HEAD_BOB_AMPLITUDE) \div ONE_MILLI
           /\ hb'.headBobTimer = hb.headBobTimer + (clock' - clock) ]_vars

\* C39 witness: a call with isMoving false found the bob stopped after it
\* had run: the timer and the offset are not 0
C39_IdleAfterRunning ==
  /\ op = "getHeadBobStill"
  /\ obs.bobIdle
  /\ ~hb.headBobActive
  /\ hb.headBobTimer > MAX_FRAME_TIME
  /\ hb.headBobAmount # 0
-----------------------------------------------------------------------------
(* InputManager driven by every listener it registers *)

\* a listener of the input manager runs; nothing else changes
Delivered(in, name) ==
  /\ input' = in
  /\ op' = name
  /\ UNCHANGED <<clock, body, hc, zc, hb, camera, collider, tm, renderSize, engine,
                 steps, scratch, probe, obs, events>>

KeyDownEvent == \E code \in PipelineKeys : Delivered(onKeyDown(input, code), "keydown")

KeyUpEvent == \E code \in PipelineKeys : Delivered(onKeyUp(input, code), "keyup")

MouseMoveEvent ==
  \E m \in LookMoves : Delivered(onMouseMove(input, m[1], m[2]), "mousemove")

\* e.button: 0 left, 1 middle, 2 right
MouseDownEvent ==
  \E button \in {0, 1, 2}, m \in LookMoves :
    Delivered(onMouseDown(input, button, m[1], m[2]), "mousedown")

MouseUpEvent ==
  \E button \in {0, 1, 2}, m \in LookMoves :
    Delivered(onMouseUp(input, button, m[1], m[2]), "mouseup")

WheelEvent ==
  \E deltaY \in {-1, 0, 1} : Delivered(onMouseWheel(input, deltaY), "wheel")

NextEvents ==
  \/ KeyDownEvent \/ KeyUpEvent \/ MouseMoveEvent \/ MouseDownEvent
  \/ MouseUpEvent \/ WheelEvent \/ PointerLockChanged

SpecEvents == Init /\ [][NextEvents]_vars

\* the events the input manager listens to, pointer-lock changes aside
InputEventOps == {"keydown", "keyup", "mousemove", "mousedown", "mouseup", "wheel"}

\* C40: a key-down, key-up, mouse-move, mouse-button or wheel event that
\* arrives while the pointer is not locked leaves the whole input state as
\* it was: the key map, the two button flags, the X and Y deltas and the
\* scroll value
C40_UnlockedEventsChangeNothing ==
  [][ (~input.pointerLocked /\ op' \in InputEventOps) => input' = input ]_vars

\* C40 witness: a mouse-button press has arrived with the pointer unlocked,
\* after a locked stretch that left a key down, the right button down,
\* deltas and a scroll value behind; the left button is still up
C40_PressedWhileUnlocked ==
  /\ op = "mousedown"
  /\ ~input.pointerLocked
  /\ input.currentKeys["KeyW"]
  /\ input.rightButton /\ ~input.leftButton
  /\ input.mouseXDelta # 0
  /\ input.mouseWheelDelta > MIN_ZOOM_LEVEL

====
